---- MODULE Spec2Model ----
(***************************************************************************)
(* Draft-generation pipeline of the LLM GEO engine (src/app/main.py):      *)
(* analyze, create_draft and generate_draft over the tables sites,         *)
(* memories and articles, the remote WordPress plugin endpoint, and the    *)
(* anti-duplicate / internal-link logic; the signer and the signed         *)
(* requests; the scheduling loop of the worker (src/app/worker.py); the    *)
(* statements of two invocations interleaved; and the worker calling the   *)
(* engine.                                                                 *)
(*                                                                         *)
(* Text is modelled by TLC strings built with \o exactly where the code    *)
(* concatenates or formats; Python None / SQL NULL is the empty tuple <<>> *)
(* and a present value v is <<v>>.                                         *)
(***************************************************************************)
EXTENDS Integers, Sequences, FiniteSets, TLC

VARIABLES
    articles,   \* table articles, in insertion (created_at) order
    memories,   \* table memories: (site_id, key) -> None | Some(value)
    wp_posts,   \* drafts held by the remote plugin endpoints
    today,      \* calendar day seen by time.strftime
    bases,      \* history: the text each article row was fingerprinted from
    drafts,     \* history: site and base content of each remote draft
    inflight,   \* overlapping invocations: where each stands in the pipeline
    wire,       \* the signer's input and the HTTP requests of the last signed call
    jobs,       \* worker: the job list of AUTO_SITES_JSON
    store,      \* worker: StateStore.mem, key -> last-run timestamp
    clock,      \* worker: int(time.time())
    now,        \* worker: `now` of the running cycle
    wpc,        \* worker: position in main(): phase and job index
    seen_sites, \* worker: seen_sites of the running cycle
    cycles,     \* worker: cycles begun
    log,        \* history: what the last worker step evaluated and did
    pending     \* history: triggers that failed and have not succeeded since

engineVars == <<articles, memories, wp_posts, today, bases, drafts, inflight>>

workerVars ==
    <<jobs, store, clock, now, wpc, seen_sites, cycles, log, pending>>

vars == <<articles, memories, wp_posts, today, bases, drafts, inflight, wire,
          jobs, store, clock, now, wpc, seen_sites, cycles, log, pending>>

----------------------------------------------------------------------------
(* Bounds of the model *)

\* rows of the articles table, and drafts the remote side holds
MaxArticles == 2

\* cycles of the worker loop
MaxCycles == 3

----------------------------------------------------------------------------
(* Optional values *)

None == <<>>
Some(v) == <<v>>
Get(o) == o[1]

RECURSIVE JoinComma(_)
JoinComma(xs) ==
    IF xs = <<>> THEN ""
    ELSE IF Len(xs) = 1 THEN xs[1]
    ELSE xs[1] \o ", " \o JoinComma(Tail(xs))

----------------------------------------------------------------------------
(* Table sites: rows are created by administration, never by this code.    *)
(* A and B are active, C is inactive, Z has no row.                        *)

SiteIds == {"A", "B", "C", "Z"}

sites ==
    [ A |-> [site_url |-> "https://A.re", secret |-> "ka", is_active |-> TRUE],
      B |-> [site_url |-> "https://B.re",  secret |-> "kb", is_active |-> TRUE],
      C |-> [site_url |-> "https://C.re",  secret |-> "kc", is_active |-> FALSE] ]

MemoryKeys == {"site_profile", "media_cache"}

Topics == {"roofing", "plumbing"}

----------------------------------------------------------------------------
(* What the remote plugin can answer to the two signed GETs of analyze.    *)

Profile1 ==
    [ service_area |-> <<"Saint-Pierre", "", "Saint-Leu">>,
      company_name |-> "Toit974", site_name |-> "toit974.re" ]

Profile2 ==
    [ service_area |-> <<>>, company_name |-> "", site_name |-> "" ]

Media1 ==
    [ count |-> 3,
      items |-> << [url |-> "img1.jpg", alt |-> "toit sale", title |-> "t1"],
                   [url |-> "",         alt |-> "",          title |-> ""],
                   [url |-> "img3.jpg", alt |-> "",          title |-> "t3"] >> ]

Media2 ==
    [ count |-> 1,
      items |-> << [url |-> "img4.jpg", alt |-> "", title |-> ""] >> ]

\* Site A's media library changes over time, site B's does not.
RemoteProfiles(site_id) == IF site_id = "A" THEN {Profile1} ELSE {Profile2}
RemoteMedia(site_id) == IF site_id = "A" THEN {Media1, Media2} ELSE {Media2}

----------------------------------------------------------------------------
(* Helpers of src/app/main.py *)

\* SHA-256 as a collision-free digest: equal texts give equal digests,
\* different texts different digests, and a digest is never a text itself.
sha256_hex(s) == "sha256(" \o s \o ")"

\* Mutant: SELECT value FROM memories WHERE key = %s, the site forgotten
memory_get_AnySite(mem, site_id, key) ==
    LET hits == { k \in DOMAIN mem : k[2] = key /\ mem[k] # None }
    IN  IF hits = {} THEN None ELSE mem[CHOOSE k \in hits : TRUE]

memory_get(mem, site_id, key) == mem[<<site_id, key>>]

\* Mutant: ON CONFLICT (site_id, key) DO NOTHING
memory_upsert_KeepExisting(mem, site_id, key, value) ==
    IF mem[<<site_id, key>>] = None
    THEN [mem EXCEPT ![<<site_id, key>>] = Some(value)]
    ELSE mem

memory_upsert(mem, site_id, key, value) ==
    [mem EXCEPT ![<<site_id, key>>] = Some(value)]

\* Mutant: the condition is_active = true is missing from the SELECT
get_site_IgnoresActive(site_id) ==
    IF site_id \in DOMAIN sites
    THEN [ok |-> TRUE, status |-> 200,
          site_url |-> sites[site_id].site_url,
          secret |-> sites[site_id].secret]
    ELSE [ok |-> FALSE, status |-> 404, site_url |-> "", secret |-> ""]

\* [ok, status, site_url, secret]: a row is found only for an active site
get_site(site_id) ==
    IF site_id \in DOMAIN sites /\ sites[site_id].is_active
    THEN IF sites[site_id].site_url = "" \/ sites[site_id].secret = ""
         THEN [ok |-> FALSE, status |-> 400, site_url |-> "", secret |-> ""]
         ELSE [ok |-> TRUE, status |-> 200,
               site_url |-> sites[site_id].site_url,
               secret |-> sites[site_id].secret]
    ELSE [ok |-> FALSE, status |-> 404, site_url |-> "", secret |-> ""]

Min(a, b) == IF a < b THEN a ELSE b
Max(a, b) == IF a > b THEN a ELSE b

\* media_cache is None or a dict; items[: max(0, min(k, len(items)))]
pick_images(media_cache, k) ==
    LET items == IF media_cache = None THEN <<>> ELSE Get(media_cache).items
    IN  SubSeq(items, 1, Max(0, Min(k, Len(items))))

normalize_service_area(profile) ==
    LET areas == IF profile = None THEN <<>> ELSE Get(profile).service_area
    IN  IF areas # <<>>
        THEN JoinComma(SelectSeq(areas, LAMBDA x : x # ""))
        ELSE "La Reunion"

get_company_name(profile) ==
    LET company == IF profile = None THEN "" ELSE Get(profile).company_name
        sname == IF profile = None THEN "" ELSE Get(profile).site_name
    IN  IF company # "" THEN company
        ELSE IF sname # "" THEN sname
        ELSE "Notre entreprise"

\* time.strftime("%d/%m/%Y") on calendar day d
Days == <<"06/11/2026", "07/11/2026">>
strftime(d) == Days[d]

RECURSIVE FigureBlock(_)
FigureBlock(imgs) ==
    IF imgs = <<>> THEN ""
    ELSE LET i == Head(imgs)
             alt == IF i.alt # "" THEN i.alt
                    ELSE IF i.title # "" THEN i.title ELSE "Illustration"
         IN  (IF i.url # ""
              THEN "<figure><img src=" \o i.url \o " alt=" \o alt \o "/></figure>"
              ELSE "") \o FigureBlock(Tail(imgs))

RECURSIVE UrlsOf(_)
UrlsOf(imgs) ==
    IF imgs = <<>> THEN <<>>
    ELSE (IF Head(imgs).url # "" THEN <<Head(imgs).url>> ELSE <<>>)
         \o UrlsOf(Tail(imgs))

\* (title, content_html, excerpt, images_used); topic_key and angle are
\* parameters of the builder that its body never reads.
build_article_html(profile, media_cache, topic_key, angle, day) ==
    LET company == get_company_name(profile)
        area == normalize_service_area(profile)
        pname == IF profile = None THEN "" ELSE Get(profile).site_name
        site_name == IF pname # "" THEN pname ELSE company
        title == "Entretien de toiture a " \o area \o " : guide complet"
        excerpt == "Conseils pratiques a " \o area
        imgs == pick_images(media_cache, 2)
        images_used == UrlsOf(imgs)
        img_block == IF images_used # <<>>
                     THEN "<h2>Exemples de chantiers</h2>" \o FigureBlock(imgs)
                     ELSE ""
        faq_html == "<h2>FAQ</h2><ul><li>nettoyer a " \o area \o "</li></ul>"
        faq_jsonld == "<script>FAQPage " \o area \o "</script>"
        content == "<h1>" \o title \o "</h1>"
                   \o "<p>maj " \o strftime(day) \o "</p>"
                   \o "<p>A " \o area \o "</p>"
                   \o img_block \o faq_html \o faq_jsonld
                   \o "<hr/><p>" \o company \o " - " \o site_name
                   \o ". Zone : " \o area \o "</p>"
    IN  [title |-> title, content_html |-> content, excerpt |-> excerpt,
         images_used |-> images_used]

----------------------------------------------------------------------------
(* Anti-duplicate lookup and internal links *)

\* Mutant: the lookup compares the column content_html with the hash
SelectDuplicate_WrongColumn(tbl, site_id, base_hash) ==
    { i \in 1..Len(tbl) :
        tbl[i].site_id = site_id /\ tbl[i].content_html = base_hash }

\* Mutant: the hash is hashed once more before the comparison
SelectDuplicate_HashTwice(tbl, site_id, base_hash) ==
    { i \in 1..Len(tbl) :
        tbl[i].site_id = site_id /\ tbl[i].content_hash = sha256_hex(base_hash) }

\* Mutant: the lookup is by content_hash alone
SelectDuplicate_AnySite(tbl, site_id, base_hash) ==
    { i \in 1..Len(tbl) : tbl[i].content_hash = base_hash }

\* SELECT wp_post_id, wp_url FROM articles WHERE site_id = %s AND
\* content_hash = %s: the matching rows (fetchone takes one of them)
SelectDuplicate(tbl, site_id, base_hash) ==
    { i \in 1..Len(tbl) :
        tbl[i].site_id = site_id /\ tbl[i].content_hash = base_hash }

LinksLimit == 5

\* The SELECT of build_internal_links_block: rows of the site and topic with
\* wp_url IS NOT NULL, ORDER BY created_at DESC, LIMIT limit
RECURSIVE LinkRows(_, _, _, _, _)
LinkRows(tbl, i, site_id, topic_key, limit) ==
    IF i = 0 \/ limit <= 0 THEN <<>>
    ELSE IF /\ tbl[i].site_id = site_id
            /\ tbl[i].wp_url # None
            /\ tbl[i].topic_key = topic_key
         THEN <<tbl[i]>> \o LinkRows(tbl, i - 1, site_id, topic_key, limit - 1)
         ELSE LinkRows(tbl, i - 1, site_id, topic_key, limit)

RECURSIVE LinkItems(_)
LinkItems(rows) ==
    IF rows = <<>> THEN ""
    ELSE (IF Get(Head(rows).wp_url) # ""
          THEN "<li><a href=" \o Get(Head(rows).wp_url) \o ">"
               \o Head(rows).title \o "</a></li>"
          ELSE "") \o LinkItems(Tail(rows))

build_internal_links_block(tbl, site_id, topic_key, limit) ==
    LET rows == LinkRows(tbl, Len(tbl), site_id, topic_key, limit)
    IN  IF rows = <<>> THEN ""
        ELSE "<h2>A lire aussi</h2><ul>" \o LinkItems(rows) \o "</ul>"

\* content = content + "\n\n" + internal_block, when the block is not empty
Enrich(content, internal_block) ==
    IF internal_block # "" THEN content \o "\n\n" \o internal_block
    ELSE content

\* json.dumps({"title": ..., "content": ..., "excerpt": ...})
body_json_of(title, content, excerpt) ==
    "{title: " \o title \o ", content: " \o content
    \o ", excerpt: " \o excerpt \o "}"

----------------------------------------------------------------------------
(* The remote draft endpoint, POST /wp-json/llmgeo/v1/draft, and the signed *)
(* POST of the engine.                                                      *)

\* What the remote side does with one POST: whether it creates the draft,
\* and what the engine gets to see of it.
PostReplies ==
    { [created |-> TRUE,  kind |-> "json"],        \* 200 {id, link}
      [created |-> TRUE,  kind |-> "empty_link"],  \* 200 {id, link: ""}
      [created |-> TRUE,  kind |-> "no_ids"],      \* 200 {} without id, link
      [created |-> FALSE, kind |-> "status_500"],  \* status >= 400
      [created |-> FALSE, kind |-> "html"],        \* 200, body is not JSON
      [created |-> TRUE,  kind |-> "timeout"],     \* no answer in HTTP_TIMEOUT
      [created |-> FALSE, kind |-> "timeout"] }

PostsOf(posts, site_id) == SelectSeq(posts, LAMBDA p : p.site_id = site_id)

RemoteLink(site_id, id) == sites[site_id].site_url \o "/?p=" \o ToString(id)

\* The HTTP exchange as requests.post sees it
RemoteResponse(posts, site_id, reply) ==
    LET id == Len(PostsOf(posts, site_id)) + 1
    IN  CASE reply.kind = "json" ->
               [timeout |-> FALSE, status_code |-> 200,
                json |-> Some([id |-> Some(id),
                               link |-> Some(RemoteLink(site_id, id))])]
          [] reply.kind = "empty_link" ->
               [timeout |-> FALSE, status_code |-> 200,
                json |-> Some([id |-> Some(id), link |-> Some("")])]
          [] reply.kind = "no_ids" ->
               [timeout |-> FALSE, status_code |-> 200,
                json |-> Some([id |-> None, link |-> None])]
          [] reply.kind = "status_500" ->     \* {code, message}
               [timeout |-> FALSE, status_code |-> 500,
                json |-> Some([id |-> None, link |-> None])]
          [] reply.kind = "html" ->
               [timeout |-> FALSE, status_code |-> 200, json |-> None]
          [] OTHER ->
               [timeout |-> TRUE, status_code |-> 0, json |-> None]

RemoteStore(posts, site_id, body_json, reply) ==
    IF reply.created
    THEN Append(posts, [site_id |-> site_id, body |-> body_json])
    ELSE posts

\* Mutant: a timeout is swallowed and an empty dict returned
wp_signed_post_TimeoutAsEmpty(site_url, secret, path, body_json, r) ==
    IF r.timeout
    THEN [raised |-> "", status_code |-> 0,
          json |-> Some([id |-> None, link |-> None])]
    ELSE IF r.status_code >= 400
    THEN [raised |-> "HTTPException", status_code |-> 502, json |-> None]
    ELSE IF r.json = None
    THEN [raised |-> "JSONDecodeError", status_code |-> 0, json |-> None]
    ELSE [raised |-> "", status_code |-> 0, json |-> r.json]

\* Mutant: the status check is missing, r.json() of an error body is returned
wp_signed_post_NoStatusCheck(site_url, secret, path, body_json, r) ==
    IF r.timeout
    THEN [raised |-> "ReadTimeout", status_code |-> 0, json |-> None]
    ELSE IF r.json = None
    THEN [raised |-> "JSONDecodeError", status_code |-> 0, json |-> None]
    ELSE [raised |-> "", status_code |-> 0, json |-> r.json]

\* wp_signed_post: requests.post raises ReadTimeout on a timeout, a status
\* >= 400 raises HTTPException(502), r.json() raises on a body that is not
\* JSON; otherwise the parsed dict is returned.
wp_signed_post(site_url, secret, path, body_json, r) ==
    IF r.timeout
    THEN [raised |-> "ReadTimeout", status_code |-> 0, json |-> None]
    ELSE IF r.status_code >= 400
    THEN [raised |-> "HTTPException", status_code |-> 502, json |-> None]
    ELSE IF r.json = None
    THEN [raised |-> "JSONDecodeError", status_code |-> 0, json |-> None]
    ELSE [raised |-> "", status_code |-> 0, json |-> r.json]

\* What the caller of the API receives for an exception leaving a handler:
\* an HTTPException keeps its status and detail, anything else is the
\* framework's 500 Internal Server Error.
ErrorResponse(raised, status_code, detail) ==
    IF raised = "HTTPException"
    THEN [status |-> "error", http |-> status_code, detail |-> detail]
    ELSE [status |-> "error", http |-> 500, detail |-> "Internal Server Error"]

\* Mutant: the hash of the content as published is stored
InsertArticle_HashFinal(tbl, site_id, wp_json, title, content, excerpt, topic_key, base_hash, source) ==
    Append(tbl, [ site_id |-> site_id,
                  wp_post_id |-> wp_json.id,
                  wp_status |-> "draft",
                  wp_url |-> wp_json.link,
                  title |-> title,
                  content_html |-> content,
                  excerpt |-> excerpt,
                  topic_key |-> topic_key,
                  content_hash |-> sha256_hex(content),
                  meta |-> source ])

\* Mutant: the insert is ON CONFLICT (site_id, content_hash) DO NOTHING
InsertArticle_UniqueHash(tbl, site_id, wp_json, title, content, excerpt, topic_key, base_hash, source) ==
    IF \E i \in 1..Len(tbl) : /\ tbl[i].site_id = site_id
                              /\ tbl[i].content_hash = base_hash
    THEN tbl
    ELSE Append(tbl, [ site_id |-> site_id,
                       wp_post_id |-> wp_json.id,
                       wp_status |-> "draft",
                       wp_url |-> wp_json.link,
                       title |-> title,
                       content_html |-> content,
                       excerpt |-> excerpt,
                       topic_key |-> topic_key,
                       content_hash |-> base_hash,
                       meta |-> source ])

\* Mutant: the insert is an upsert on (site_id, topic_key), the row of an
\* earlier article of the topic is overwritten
InsertArticle_Upsert(tbl, site_id, wp_json, title, content, excerpt, topic_key, base_hash, source) ==
    LET row == [ site_id |-> site_id,
                 wp_post_id |-> wp_json.id,
                 wp_status |-> "draft",
                 wp_url |-> wp_json.link,
                 title |-> title,
                 content_html |-> content,
                 excerpt |-> excerpt,
                 topic_key |-> topic_key,
                 content_hash |-> base_hash,
                 meta |-> source ]
        old == { i \in 1..Len(tbl) : /\ tbl[i].site_id = site_id
                                     /\ tbl[i].topic_key = topic_key }
    IN  IF old = {}
        THEN Append(tbl, row)
        ELSE [ i \in 1..Len(tbl) |-> IF i \in old THEN row ELSE tbl[i] ]

\* INSERT INTO articles (...) VALUES (...)
InsertArticle(tbl, site_id, wp_json, title, content, excerpt, topic_key, base_hash, source) ==
    Append(tbl, [ site_id |-> site_id,
                  wp_post_id |-> wp_json.id,
                  wp_status |-> "draft",
                  wp_url |-> wp_json.link,
                  title |-> title,
                  content_html |-> content,
                  excerpt |-> excerpt,
                  topic_key |-> topic_key,
                  content_hash |-> base_hash,
                  meta |-> source ])

----------------------------------------------------------------------------
(* The signer and the requests of the signed calls *)

\* Mutant: the body is left out of the signed message
hmac_message_NoBody(method, path, ts, body) ==
    method \o "\n" \o path \o "\n" \o ts

\* payload = f"{method}\n{path}\n{ts}\n{body}"
hmac_message(method, path, ts, body) ==
    method \o "\n" \o path \o "\n" \o ts \o "\n" \o body

\* HMAC-SHA256 as a collision-free keyed digest of the message
hmac_sign(secret, method, path, ts, body) ==
    "hmac_sha256(" \o secret \o ", " \o hmac_message(method, path, ts, body)
    \o ")"

\* s.rstrip("/")
RECURSIVE rstrip_slash(_)
rstrip_slash(s) ==
    IF Len(s) > 0 /\ SubSeq(s, Len(s), Len(s)) = "/"
    THEN rstrip_slash(SubSeq(s, 1, Len(s) - 1))
    ELSE s

\* s.encode("utf-8"): the bytes of a text, a value that is not a text
encode_utf8(s) == <<"utf-8", s>>

\* str(int(time.time())) at second t
str_int(t) == ToString(t)

\* The arguments given to hmac_sign and the request given to requests.get
wp_signed_get_request(site_url, secret, call_path, sign_path, t) ==
    LET ts == str_int(t)
        body == ""
        sig == hmac_sign(secret, "GET", sign_path, ts, body)
    IN  [ kind |-> "request",
          signed |-> [secret |-> secret, method |-> "GET", path |-> sign_path,
                      ts |-> ts, body |-> body],
          method |-> "GET",
          url |-> rstrip_slash(site_url) \o call_path,
          call_path |-> call_path,
          data |-> encode_utf8(""),
          headers |-> [ name \in {"X-LLMGEO-TS", "X-LLMGEO-SIGN"} |->
                          IF name = "X-LLMGEO-TS" THEN ts ELSE sig ] ]

\* Mutant: the timestamp header is computed again after signing
wp_signed_post_request_NewTs(site_url, secret, path, body_json, t) ==
    LET ts == str_int(t)
        sig == hmac_sign(secret, "POST", path, ts, body_json)
    IN  [ kind |-> "request",
          signed |-> [secret |-> secret, method |-> "POST", path |-> path,
                      ts |-> ts, body |-> body_json],
          method |-> "POST",
          url |-> rstrip_slash(site_url) \o path,
          call_path |-> path,
          data |-> encode_utf8(body_json),
          headers |-> [ name \in {"Content-Type", "X-LLMGEO-TS",
                                  "X-LLMGEO-SIGN"} |->
                          IF name = "Content-Type" THEN "application/json"
                          ELSE IF name = "X-LLMGEO-TS" THEN str_int(t + 1)
                          ELSE sig ] ]

\* The arguments given to hmac_sign and the request given to requests.post
wp_signed_post_request(site_url, secret, path, body_json, t) ==
    LET ts == str_int(t)
        sig == hmac_sign(secret, "POST", path, ts, body_json)
    IN  [ kind |-> "request",
          signed |-> [secret |-> secret, method |-> "POST", path |-> path,
                      ts |-> ts, body |-> body_json],
          method |-> "POST",
          url |-> rstrip_slash(site_url) \o path,
          call_path |-> path,
          data |-> encode_utf8(body_json),
          headers |-> [ name \in {"Content-Type", "X-LLMGEO-TS",
                                  "X-LLMGEO-SIGN"} |->
                          IF name = "Content-Type" THEN "application/json"
                          ELSE IF name = "X-LLMGEO-TS" THEN ts
                          ELSE sig ] ]

----------------------------------------------------------------------------
(* Signed GET of analyze *)

MAX_MEDIA == 20

\* The two GETs of analyze_site: the path called and the path signed
ProfileGet ==
    [ call_path |-> "/wp-json/llmgeo/v1/site-profile",
      sign_path |-> "/wp-json/llmgeo/v1/site-profile" ]

\* Mutant: the media fetch signs the path it calls
MediaGet_SignsQuery ==
    [ call_path |-> "/wp-json/llmgeo/v1/media?per_page=" \o ToString(MAX_MEDIA),
      sign_path |-> "/wp-json/llmgeo/v1/media?per_page=" \o ToString(MAX_MEDIA) ]

MediaGet ==
    [ call_path |-> "/wp-json/llmgeo/v1/media?per_page=" \o ToString(MAX_MEDIA),
      sign_path |-> "/wp-json/llmgeo/v1/media" ]

GetReplies(values) ==
    { [kind |-> "json", value |-> v] : v \in values }
    \cup { [kind |-> k, value |-> CHOOSE v \in values : TRUE] :
             k \in {"status_500", "html", "timeout"} }

GetResponse(reply) ==
    CASE reply.kind = "json" ->
           [timeout |-> FALSE, status_code |-> 200, json |-> Some(reply.value)]
      [] reply.kind = "status_500" ->
           [timeout |-> FALSE, status_code |-> 500, json |-> None]
      [] reply.kind = "html" ->
           [timeout |-> FALSE, status_code |-> 200, json |-> None]
      [] OTHER ->
           [timeout |-> TRUE, status_code |-> 0, json |-> None]

wp_signed_get(site_url, secret, call_path, sign_path, r) ==
    IF r.timeout
    THEN [raised |-> "ReadTimeout", status_code |-> 0, json |-> None]
    ELSE IF r.status_code >= 400
    THEN [raised |-> "HTTPException", status_code |-> 502, json |-> None]
    ELSE IF r.json = None
    THEN [raised |-> "JSONDecodeError", status_code |-> 0, json |-> None]
    ELSE [raised |-> "", status_code |-> 0, json |-> r.json]

----------------------------------------------------------------------------
(* The handlers. Each is the set of outcomes one invocation can have in a   *)
(* database state: what the caller receives (status, http, detail,         *)
(* wp_post_id, wp_url, images_used), the tables and the remote drafts after *)
(* it, and the requests it sent (posts, gets).                              *)

DraftPath == "/wp-json/llmgeo/v1/draft"

Failed(raised, status_code, detail, tbl, mem, posts, nposts, ngets, base) ==
    LET e == ErrorResponse(raised, status_code, detail)
    IN  [ status |-> e.status, http |-> e.http, detail |-> e.detail,
          wp_post_id |-> None, wp_url |-> None, images_used |-> <<>>,
          articles |-> tbl, memories |-> mem, wp_posts |-> posts,
          posts |-> nposts, gets |-> ngets, base |-> base ]

Returned(status, ids, images_used, tbl, mem, posts, nposts, ngets, base) ==
    [ status |-> status, http |-> 200, detail |-> "",
      wp_post_id |-> ids.wp_post_id, wp_url |-> ids.wp_url,
      images_used |-> images_used,
      articles |-> tbl, memories |-> mem, wp_posts |-> posts,
      posts |-> nposts, gets |-> ngets, base |-> base ]

\* Mutant: the url of the existing row is not returned
DuplicateResult_NoUrl(row) ==
    [wp_post_id |-> row.wp_post_id, wp_url |-> None]

\* return {"status": "duplicate", "wp_post_id": dup[0], "wp_url": dup[1]}
DuplicateResult(row) ==
    [wp_post_id |-> row.wp_post_id, wp_url |-> row.wp_url]

\* return {"status": "created", "wp_post_id": wp_json.get("id"), ...}
CreatedResult(wp_json) ==
    [wp_post_id |-> wp_json.id, wp_url |-> wp_json.link]

NoIds == [wp_post_id |-> None, wp_url |-> None]

\* Mutant: a POST that times out is sent a second time
Pipeline_RetryOnTimeout(tbl, mem, posts, site, site_id, title, content, excerpt, topic_key, images_used, source, reply) ==
    LET base_hash == sha256_hex(content)
        dups == SelectDuplicate(tbl, site_id, base_hash)
        internal_block ==
            build_internal_links_block(tbl, site_id, topic_key, LinksLimit)
        final == Enrich(content, internal_block)
        body_json == body_json_of(title, final, excerpt)
        r == RemoteResponse(posts, site_id, reply)
        wp == wp_signed_post(site.site_url, site.secret, DraftPath, body_json, r)
        stored == RemoteStore(posts, site_id, body_json, reply)
        again == RemoteStore(stored, site_id, body_json, reply)
    IN  IF dups # {}
        THEN { Returned("duplicate", DuplicateResult(tbl[i]), <<>>,
                        tbl, mem, posts, 0, 0, Some(content)) : i \in dups }
        ELSE IF wp.raised = "ReadTimeout"
        THEN { Failed(wp.raised, wp.status_code, "WP POST failed",
                      tbl, mem, again, 2, 0, Some(content)) }
        ELSE IF wp.raised # ""
        THEN { Failed(wp.raised, wp.status_code, "WP POST failed",
                      tbl, mem, stored, 1, 0, Some(content)) }
        ELSE { Returned("created", CreatedResult(Get(wp.json)), images_used,
                        InsertArticle(tbl, site_id, Get(wp.json), title, final,
                                      excerpt, topic_key, base_hash, source),
                        mem, stored, 1, 0, Some(content)) }

\* Steps 4-7, the same code in both entry points: duplicate lookup on the
\* hash of the base content, link block, signed POST, insert and commit. An
\* exception leaves the `with db_connect()` block without commit.
Pipeline(tbl, mem, posts, site, site_id, title, content, excerpt, topic_key, images_used, source, reply) ==
    LET base_hash == sha256_hex(content)
        dups == SelectDuplicate(tbl, site_id, base_hash)
        internal_block ==
            build_internal_links_block(tbl, site_id, topic_key, LinksLimit)
        final == Enrich(content, internal_block)
        body_json == body_json_of(title, final, excerpt)
        r == RemoteResponse(posts, site_id, reply)
        wp == wp_signed_post(site.site_url, site.secret, DraftPath, body_json, r)
        stored == RemoteStore(posts, site_id, body_json, reply)
    IN  IF dups # {}
        THEN { Returned("duplicate", DuplicateResult(tbl[i]), <<>>,
                        tbl, mem, posts, 0, 0, Some(content)) : i \in dups }
        ELSE IF wp.raised # ""
        THEN { Failed(wp.raised, wp.status_code, "WP POST failed",
                      tbl, mem, stored, 1, 0, Some(content)) }
        ELSE { Returned("created", CreatedResult(Get(wp.json)), images_used,
                        InsertArticle(tbl, site_id, Get(wp.json), title, final,
                                      excerpt, topic_key, base_hash, source),
                        mem, stored, 1, 0, Some(content)) }

\* POST /sites/{site_id}/draft and POST /api/sites/{site_id}/draft
create_multisite_draft_internal(tbl, mem, posts, site_id, title, content, excerpt, topic_key, reply) ==
    LET site == get_site(site_id)
    IN  IF ~site.ok
        THEN { Failed("HTTPException", site.status, "Site non trouve",
                      tbl, mem, posts, 0, 0, None) }
        ELSE Pipeline(tbl, mem, posts, site, site_id, title, content, excerpt,
                      topic_key, <<>>, "engine:draft", reply)

\* the guard `if not profile or not media`
site_not_analyzed(profile, media) == profile = None \/ media = None

\* POST /api/sites/{site_id}/generate-draft
generate_draft(tbl, mem, posts, day, site_id, topic_key, angle, images_count, reply) ==
    LET site == get_site(site_id)
        profile == memory_get(mem, site_id, "site_profile")
        media == memory_get(mem, site_id, "media_cache")
        built == build_article_html(profile, media, topic_key, angle, day)
    IN  IF ~site.ok
        THEN { Failed("HTTPException", site.status, "Site non trouve",
                      tbl, mem, posts, 0, 0, None) }
        ELSE IF site_not_analyzed(profile, media)
        THEN { Failed("HTTPException", 400, "Site non analyse",
                      tbl, mem, posts, 0, 0, None) }
        ELSE Pipeline(tbl, mem, posts, site, site_id, built.title,
                      built.content_html, built.excerpt, topic_key,
                      built.images_used, "engine:generate-draft", reply)

\* POST /api/sites/{site_id}/analyze
analyze_site(tbl, mem, posts, site_id, profile_reply, media_reply) ==
    LET site == get_site(site_id)
        p == wp_signed_get(site.site_url, site.secret, ProfileGet.call_path,
                 ProfileGet.sign_path, GetResponse(profile_reply))
        m == wp_signed_get(site.site_url, site.secret, MediaGet.call_path,
                 MediaGet.sign_path, GetResponse(media_reply))
    IN  IF ~site.ok
        THEN { Failed("HTTPException", site.status, "Site non trouve",
                      tbl, mem, posts, 0, 0, None) }
        ELSE IF p.raised # ""
        THEN { Failed(p.raised, p.status_code, "WP GET failed",
                      tbl, mem, posts, 0, 1, None) }
        ELSE IF m.raised # ""
        THEN { Failed(m.raised, m.status_code, "WP GET failed",
                      tbl, mem, posts, 0, 2, None) }
        ELSE { Returned("ok", NoIds, <<>>, tbl,
                   memory_upsert(
                       memory_upsert(mem, site_id, "site_profile", Get(p.json)),
                       site_id, "media_cache", Get(m.json)),
                   posts, 0, 2, None) }

----------------------------------------------------------------------------
(* The worker process before main() runs *)

NoLog ==
    [ phase |-> "", idx |-> 0, key |-> "", last |-> 0, now |-> 0,
      frequency |-> "", called |-> FALSE, result |-> "",
      reply |-> [raises |-> "", status_code |-> 0] ]

WorkerNotStarted ==
    /\ jobs = <<>>
    /\ store = <<>>
    /\ clock = 0
    /\ now = 0
    /\ wpc = [phase |-> "stopped", idx |-> 0]
    /\ seen_sites = {}
    /\ cycles = 0
    /\ log = NoLog
    /\ pending = {}

----------------------------------------------------------------------------
(* Invocations in progress: none while they run one at a time *)

Slots == {"r1", "r2"}

Idle ==
    [ pc |-> "idle", entry |-> "", site_id |-> "", title |-> "",
      content |-> "", excerpt |-> "", topic_key |-> "", images_used |-> <<>>,
      source |-> "", reply |-> None, final |-> "", wp_json |-> None,
      status |-> "", http |-> 0 ]

NoneInFlight == [ s \in Slots |-> Idle ]

\* The drafts history once the remote side holds `posts`: a draft it stored
\* in the run is noted with the base content of the run and with whether
\* the run goes on to insert the article row of the draft
DraftsAfter(posts, base, recorded) ==
    IF Len(posts) > Len(wp_posts)
    THEN Append(drafts, [ site_id |-> posts[Len(posts)].site_id,
                          base |-> Get(base), recorded |-> recorded ])
    ELSE drafts

----------------------------------------------------------------------------
(* The state machine: invocations run one at a time *)

Titles == {"T1"}
Contents == {"<p>c1</p>"}
Excerpts == {""}
Angles == {"guide"}
ImagesCounts == {0}
PipelineTopics == {"roofing"}

\* The remote answers of the pipeline runs: every kind but the empty link
PipelineReplies == { r \in PostReplies : r.kind # "empty_link" }

DraftCalls ==
    [ site_id : SiteIds, title : Titles, content : Contents,
      excerpt : Excerpts, topic_key : PipelineTopics, reply : PipelineReplies ]

GenerateCalls ==
    [ site_id : SiteIds, topic_key : PipelineTopics, angle : Angles,
      images_count : ImagesCounts, reply : PipelineReplies ]

AnalyzeCalls ==
    UNION { [ site_id : {s},
              profile_reply : GetReplies(RemoteProfiles(s)),
              media_reply : GetReplies(RemoteMedia(s)) ] : s \in SiteIds }

RunDraft(c) ==
    create_multisite_draft_internal(articles, memories, wp_posts, c.site_id,
        c.title, c.content, c.excerpt, c.topic_key, c.reply)

RunGenerate(c) ==
    generate_draft(articles, memories, wp_posts, today, c.site_id,
        c.topic_key, c.angle, c.images_count, c.reply)

RunAnalyze(c) ==
    analyze_site(articles, memories, wp_posts, c.site_id, c.profile_reply,
        c.media_reply)

Init ==
    /\ articles = <<>>
    /\ memories = [k \in SiteIds \X MemoryKeys |-> None]
    /\ wp_posts = <<>>
    /\ today = 1
    /\ bases = <<>>
    /\ drafts = <<>>
    /\ inflight = NoneInFlight
    /\ wire = <<>>
    /\ WorkerNotStarted

Stored(out) ==
    /\ Len(out.articles) <= MaxArticles
    /\ Len(out.wp_posts) <= MaxArticles
    /\ articles' = out.articles
    /\ memories' = out.memories
    /\ wp_posts' = out.wp_posts
    /\ bases' = IF Len(out.articles) > Len(articles)
                THEN Append(bases, Get(out.base))
                ELSE bases
    /\ drafts' = DraftsAfter(out.wp_posts, out.base,
                             Len(out.articles) > Len(articles))

Commit(out) ==
    /\ Stored(out)
    /\ UNCHANGED <<today, inflight, wire>>
    /\ UNCHANGED workerVars

CreateDraft == \E c \in DraftCalls : \E out \in RunDraft(c) : Commit(out)

GenerateDraft == \E c \in GenerateCalls : \E out \in RunGenerate(c) : Commit(out)

Analyze == \E c \in AnalyzeCalls : \E out \in RunAnalyze(c) : Commit(out)

\* The calendar day changes
Tick ==
    /\ today < Len(Days)
    /\ today' = today + 1
    /\ UNCHANGED <<articles, memories, wp_posts, bases, drafts, inflight, wire>>
    /\ UNCHANGED workerVars

Next == CreateDraft \/ GenerateDraft \/ Analyze \/ Tick

Spec == Init /\ [][Next]_vars

----------------------------------------------------------------------------
(* Vocabulary of the properties *)

Rows == 1..Len(articles)

Active(site_id) == get_site(site_id).ok

Analyzed(site_id) ==
    ~site_not_analyzed(memory_get(memories, site_id, "site_profile"),
                       memory_get(memories, site_id, "media_cache"))

\* The base content of a generate_draft run in the current state
BaseOfGenerate(c) ==
    build_article_html(memory_get(memories, c.site_id, "site_profile"),
                       memory_get(memories, c.site_id, "media_cache"),
                       c.topic_key, c.angle, today).content_html

\* The rows of the site whose fingerprint is that of the content
SameFingerprint(site_id, content) ==
    { i \in Rows : /\ articles[i].site_id = site_id
                   /\ articles[i].content_hash = sha256_hex(content) }

\* The run reaches step 4 with this base content
ReachesDraft(c) == Active(c.site_id)
ReachesGenerate(c) == Active(c.site_id) /\ Analyzed(c.site_id)

IsDuplicateOf(out, rows) ==
    /\ out.status = "duplicate"
    /\ \E i \in rows : /\ out.wp_post_id = articles[i].wp_post_id
                       /\ out.wp_url = articles[i].wp_url
    /\ out.posts = 0
    /\ out.wp_posts = wp_posts
    /\ out.articles = articles

----------------------------------------------------------------------------
\* C1: after any sequence of create_draft, generate_draft and analyze
\* invocations run one at a time, no two article rows of one site have the
\* same content_hash.
C1_UniqueFingerprintPerSite ==
    \A i, j \in Rows :
        (i # j /\ articles[i].site_id = articles[j].site_id)
            => articles[i].content_hash # articles[j].content_hash

\* Two rows of one site, one of them from each entry point, and the same
\* text submitted again is a duplicate
C1_Witness ==
    \E i, j \in Rows :
        /\ i # j
        /\ articles[i].site_id = articles[j].site_id
        /\ articles[i].meta = "engine:draft"
        /\ articles[j].meta = "engine:generate-draft"
        /\ \E c \in DraftCalls :
              /\ c.site_id = articles[i].site_id
              /\ \E out \in RunDraft(c) : out.status = "duplicate"

\* C2: for either entry point, when a row of the same site already has the
\* fingerprint of the run's base content, the run returns `duplicate` with
\* the post id and url of that row, sends no POST and leaves the articles
\* table (and the remote drafts) unchanged.
C2_DuplicateShortCircuit ==
    /\ \A c \in DraftCalls :
          (ReachesDraft(c) /\ SameFingerprint(c.site_id, c.content) # {})
            => \A out \in RunDraft(c) :
                  IsDuplicateOf(out, SameFingerprint(c.site_id, c.content))
    /\ \A c \in GenerateCalls :
          (/\ ReachesGenerate(c)
           /\ SameFingerprint(c.site_id, BaseOfGenerate(c)) # {})
            => \A out \in RunGenerate(c) :
                  IsDuplicateOf(out,
                      SameFingerprint(c.site_id, BaseOfGenerate(c)))

\* A state where both entry points meet a row with their fingerprint, the
\* row having a post id and a url
C2_Witness ==
    /\ \E c \in DraftCalls :
          /\ ReachesDraft(c)
          /\ \E i \in SameFingerprint(c.site_id, c.content) :
                articles[i].wp_url # None
    /\ \E c \in GenerateCalls :
          /\ ReachesGenerate(c)
          /\ \E i \in SameFingerprint(c.site_id, BaseOfGenerate(c)) :
                articles[i].wp_url # None

\* C3: when the signed POST to the draft path times out, the invocation does
\* not return `created` and the articles table is as before, whether or not
\* the remote side created the draft.
C3_TimeoutIsNotSuccess ==
    /\ \A c \in DraftCalls : \A out \in RunDraft(c) :
          (c.reply.kind = "timeout" /\ out.posts = 1)
            => (out.status # "created" /\ out.articles = articles)
    /\ \A c \in GenerateCalls : \A out \in RunGenerate(c) :
          (c.reply.kind = "timeout" /\ out.posts = 1)
            => (out.status # "created" /\ out.articles = articles)

\* The remote side holds a draft no row records (a POST timed out after the
\* remote created it), and a POST of either entry point can time out again,
\* with and without the draft created
C3_Witness ==
    /\ Len(wp_posts) > Len(articles)
    /\ Len(articles) > 0
    /\ \E c \in DraftCalls : \E out \in RunDraft(c) :
          c.reply.kind = "timeout" /\ out.posts = 1 /\ c.reply.created
    /\ \E c \in GenerateCalls : \E out \in RunGenerate(c) :
          c.reply.kind = "timeout" /\ out.posts = 1 /\ ~c.reply.created

\* What the caller of the API can observe of an outcome
CallerView(out) ==
    [ status |-> out.status, http |-> out.http, detail |-> out.detail,
      wp_post_id |-> out.wp_post_id, wp_url |-> out.wp_url ]

\* The four situations of the publish call
Situation(reply) ==
    CASE reply.kind = "timeout" -> "timeout"
      [] reply.kind = "status_500" -> "remote error"
      [] reply.kind = "html" -> "protocol failure"
      [] OTHER -> "created"

\* C4: a timeout of the publish call is an outcome of its own for the
\* caller: the same run under two different situations among created,
\* remote error (status >= 400), protocol failure (2xx, body not JSON) and
\* timeout never gives the caller the same outcome.
C4_TimeoutIsOwnOutcome ==
    /\ \A c \in DraftCalls : \A r \in PipelineReplies :
          Situation(r) # Situation(c.reply)
            => \A o1 \in RunDraft(c), o2 \in RunDraft([c EXCEPT !.reply = r]) :
                  (o1.posts = 1 /\ o2.posts = 1)
                    => CallerView(o1) # CallerView(o2)
    /\ \A c \in GenerateCalls : \A r \in PipelineReplies :
          Situation(r) # Situation(c.reply)
            => \A o1 \in RunGenerate(c),
                  o2 \in RunGenerate([c EXCEPT !.reply = r]) :
                  (o1.posts = 1 /\ o2.posts = 1)
                    => CallerView(o1) # CallerView(o2)

\* C5: when the publish call fails with a status >= 400 or with a 2xx
\* response whose body is not JSON, the invocation ends in an error and the
\* articles table after it equals the table before it.
C5_RemoteFailureWritesNothing ==
    /\ \A c \in DraftCalls : \A out \in RunDraft(c) :
          (c.reply.kind \in {"status_500", "html"} /\ out.posts = 1)
            => (out.status = "error" /\ out.articles = articles)
    /\ \A c \in GenerateCalls : \A out \in RunGenerate(c) :
          (c.reply.kind \in {"status_500", "html"} /\ out.posts = 1)
            => (out.status = "error" /\ out.articles = articles)

\* With rows in the table, a run of each entry point gets to the POST and
\* meets a status >= 400, and one meets a body that is not JSON
C5_Witness ==
    /\ Len(articles) > 0
    /\ \E c \in DraftCalls : \E out \in RunDraft(c) :
          c.reply.kind = "status_500" /\ out.posts = 1 /\ out.http = 502
    /\ \E c \in GenerateCalls : \E out \in RunGenerate(c) :
          c.reply.kind = "html" /\ out.posts = 1 /\ out.http = 500

\* C6: generate_draft on an active site with no site_profile memory entry
\* fails with the not-analyzed error, sends no request to the remote system
\* and inserts no article row.
C6_NotAnalyzed ==
    \A c \in GenerateCalls :
        (/\ Active(c.site_id)
         /\ memories[<<c.site_id, "site_profile">>] = None)
          => \A out \in RunGenerate(c) :
                /\ out.status = "error"
                /\ out.http = 400
                /\ out.detail = "Site non analyse"
                /\ out.posts = 0 /\ out.gets = 0
                /\ out.wp_posts = wp_posts
                /\ out.articles = articles

\* An active site was never analyzed while another site was, and has rows
C6_Witness ==
    \E s, t \in SiteIds :
        /\ Active(s) /\ Active(t) /\ s # t
        /\ memories[<<s, "site_profile">>] = None
        /\ memories[<<t, "site_profile">>] # None
        /\ \E i \in Rows : articles[i].site_id = t

\* The link block a run for the row's site and topic was given when row i
\* was inserted: the one built from the rows before it
BlockAt(i) ==
    build_internal_links_block(SubSeq(articles, 1, i - 1),
        articles[i].site_id, articles[i].topic_key, LinksLimit)

BlockNow(i) ==
    build_internal_links_block(articles, articles[i].site_id,
        articles[i].topic_key, LinksLimit)

\* C7: the fingerprint looked up and stored in the row is the hash of the
\* base content, taken before the link block is appended to it; so a later
\* run of the same site with the same base content is a duplicate of that
\* row, whatever rows were added since and whatever link block it would build.
C7_FingerprintOfBaseContent ==
    /\ Len(bases) = Len(articles)
    /\ \A i \in Rows :
          /\ articles[i].content_hash = sha256_hex(bases[i])
          /\ articles[i].content_html = Enrich(bases[i], BlockAt(i))
    /\ \A i \in Rows :
          /\ \A c \in DraftCalls :
                (c.site_id = articles[i].site_id /\ c.content = bases[i])
                  => \A out \in RunDraft(c) : IsDuplicateOf(out, {i})
          /\ \A c \in GenerateCalls :
                (/\ c.site_id = articles[i].site_id
                 /\ ReachesGenerate(c)
                 /\ BaseOfGenerate(c) = bases[i])
                  => \A out \in RunGenerate(c) : IsDuplicateOf(out, {i})

\* A row published with a link block appended, a later row of the same site,
\* and runs of both entry points with the base content of an earlier row
\* whose link block would now differ from the one it was published with
C7_Witness ==
    /\ \E i \in Rows : articles[i].content_html # bases[i]
    /\ \E i, j \in Rows :
          /\ i < j
          /\ articles[i].site_id = articles[j].site_id
          /\ BlockNow(i) # BlockAt(i)
          /\ \E c \in DraftCalls :
                c.site_id = articles[i].site_id /\ c.content = bases[i]
    /\ \E i \in Rows : \E c \in GenerateCalls :
          /\ c.site_id = articles[i].site_id
          /\ ReachesGenerate(c)
          /\ BaseOfGenerate(c) = bases[i]
          /\ BlockNow(i) # BlockAt(i)

\* The outcomes of generate_draft were the cached media inventory `media`
GenerateWithMedia(c, media) ==
    generate_draft(articles,
        memory_upsert(memories, c.site_id, "media_cache", media),
        wp_posts, today, c.site_id, c.topic_key, c.angle, c.images_count,
        c.reply)

\* C8: in generate_draft the fingerprint does not depend on the images: for
\* the cached profile and the topic, any cached media inventory gives the
\* same fingerprint as the one cached now, so a change of the media cache
\* alone never turns a duplicate into a new article.
C8_FingerprintIgnoresImages ==
    \A c \in GenerateCalls :
        ReachesGenerate(c)
          => \A media \in RemoteMedia(c.site_id) :
                /\ sha256_hex(BaseOfGenerate(c))
                     = sha256_hex(build_article_html(
                           memory_get(memories, c.site_id, "site_profile"),
                           Some(media), c.topic_key, c.angle,
                           today).content_html)
                /\ (\E out \in RunGenerate(c) : out.status = "duplicate")
                     => \A out \in GenerateWithMedia(c, media) :
                           out.status = "duplicate"

\* The rows generate_draft made for the site and topic from the profile and
\* media cached now, on this or an earlier day
GeneratedFromCache(c) ==
    { i \in Rows :
        /\ articles[i].site_id = c.site_id
        /\ articles[i].topic_key = c.topic_key
        /\ articles[i].meta = "engine:generate-draft"
        /\ \E d \in 1..today :
              bases[i] = build_article_html(
                             memory_get(memories, c.site_id, "site_profile"),
                             memory_get(memories, c.site_id, "media_cache"),
                             c.topic_key, c.angle, d).content_html }

\* C9: on a site without articles, after a successful analyze, a
\* generate_draft whose publish succeeds returns `created` with a non-empty
\* url; every later generate_draft of the same site and request, at any
\* later time with the cached profile and media unchanged, returns
\* `duplicate` with that url.
C9_SecondCallIsDuplicate ==
    \A c \in GenerateCalls :
        ReachesGenerate(c)
          => /\ ({ i \in Rows : articles[i].site_id = c.site_id } = {}
                   /\ c.reply.kind = "json")
                  => \A out \in RunGenerate(c) :
                        /\ out.status = "created"
                        /\ out.wp_url \notin {None, Some("")}
             /\ \A i \in GeneratedFromCache(c) :
                  articles[i].wp_url \notin {None, Some("")}
                    => \A out \in RunGenerate(c) :
                          /\ out.status = "duplicate"
                          /\ out.wp_url = articles[i].wp_url

----------------------------------------------------------------------------
(* The internal-link block, over tables with both topics and with rows whose *)
(* remote url is missing or empty                                           *)

LinkContents == {"<p>c1</p>", "<p>c2</p>", "<p>c3</p>"}

LinkReplies ==
    { r \in PostReplies : r.kind \in {"json", "empty_link", "no_ids"} }

LinkCalls ==
    [ site_id : SiteIds, title : Titles, content : LinkContents,
      excerpt : Excerpts, topic_key : Topics, reply : LinkReplies ]

CreateDraftLinks == \E c \in LinkCalls : \E out \in RunDraft(c) : Commit(out)

NextLinks == CreateDraftLinks

SpecLinks == Init /\ [][NextLinks]_vars

\* The row has a known remote url
KnownUrl(row) == row.wp_url # None /\ Get(row.wp_url) # ""

\* The rows of the site and topic with a known url, newest first, from row i
\* down, at most n of them
RECURSIVE ClaimedRows(_, _, _, _)
ClaimedRows(i, site_id, topic_key, n) ==
    IF i = 0 \/ n = 0 THEN <<>>
    ELSE IF /\ articles[i].site_id = site_id
            /\ articles[i].topic_key = topic_key
            /\ KnownUrl(articles[i])
         THEN <<articles[i]>> \o ClaimedRows(i - 1, site_id, topic_key, n - 1)
         ELSE ClaimedRows(i - 1, site_id, topic_key, n)

RECURSIVE ClaimedItems(_)
ClaimedItems(rows) ==
    IF rows = <<>> THEN ""
    ELSE "<li><a href=" \o Get(Head(rows).wp_url) \o ">" \o Head(rows).title
         \o "</a></li>" \o ClaimedItems(Tail(rows))

\* The content the claim has the run publish
ClaimedContent(c) ==
    LET rows == ClaimedRows(Len(articles), c.site_id, c.topic_key, LinksLimit)
    IN  IF rows = <<>> THEN c.content
        ELSE c.content \o "\n\n" \o "<h2>A lire aussi</h2><ul>"
             \o ClaimedItems(rows) \o "</ul>"

\* C10: the link block of a run on (site, topic) lists exactly the up-to-5
\* most recently created rows of that site and topic that have a known
\* remote url, newest first, never a row of another site or topic; when
\* there is no such row, the published content is the base content.
C10_LinkBlock ==
    \A c \in LinkCalls : \A out \in RunDraft(c) :
        out.posts = 1
          => out.wp_posts[Len(out.wp_posts)].body
               = body_json_of(c.title, ClaimedContent(c), c.excerpt)

----------------------------------------------------------------------------
\* C16: a successful analyze of a site overwrites the entries site_profile
\* and media_cache of that site with the values just fetched, whatever was
\* stored before; running it again against the same remote answers leaves
\* the same memory values; and no analyze, successful or not, changes the
\* articles table.
C16_AnalyzeOverwrites ==
    \A c \in AnalyzeCalls : \A out \in RunAnalyze(c) :
        /\ out.articles = articles
        /\ out.status = "ok" =>
              /\ out.memories =
                    [memories EXCEPT
                       ![<<c.site_id, "site_profile">>] =
                            Some(c.profile_reply.value),
                       ![<<c.site_id, "media_cache">>] =
                            Some(c.media_reply.value)]
              /\ \A again \in analyze_site(out.articles, out.memories,
                                  out.wp_posts, c.site_id, c.profile_reply,
                                  c.media_reply) :
                    again.status = "ok" /\ again.memories = out.memories

\* A site with rows holds a media inventory and analyze succeeds with
\* another one
C16_Witness ==
    /\ Len(articles) > 0
    /\ \E c \in AnalyzeCalls : \E out \in RunAnalyze(c) :
          /\ out.status = "ok"
          /\ memories[<<c.site_id, "media_cache">>] # None
          /\ memories[<<c.site_id, "media_cache">>] # Some(c.media_reply.value)
          /\ \E i \in Rows : articles[i].site_id = c.site_id

\* The site has no row in table sites, or its row is not active
AbsentOrInactive(site_id) ==
    site_id \notin DOMAIN sites \/ ~sites[site_id].is_active

NotFoundNoEffect(out) ==
    /\ out.status = "error"
    /\ out.http = 404
    /\ out.posts = 0 /\ out.gets = 0
    /\ out.memories = memories
    /\ out.articles = articles
    /\ out.wp_posts = wp_posts

\* C17: analyze, create_draft and generate_draft on a site that is absent or
\* inactive fail with the not-found error (404), send no remote request,
\* write no memory entry and insert no row; the site having no cached
\* profile does not turn the error into not-analyzed.
C17_NotFoundFirst ==
    /\ \A c \in AnalyzeCalls : AbsentOrInactive(c.site_id)
          => \A out \in RunAnalyze(c) : NotFoundNoEffect(out)
    /\ \A c \in DraftCalls : AbsentOrInactive(c.site_id)
          => \A out \in RunDraft(c) : NotFoundNoEffect(out)
    /\ \A c \in GenerateCalls : AbsentOrInactive(c.site_id)
          => \A out \in RunGenerate(c) : NotFoundNoEffect(out)

\* With rows and an analyzed site in the database, generate_draft is called
\* on the inactive site and on the absent one, neither with a cached profile
C17_Witness ==
    /\ Len(articles) > 0
    /\ \E s \in SiteIds : memories[<<s, "site_profile">>] # None
    /\ \E c, d \in GenerateCalls :
          /\ c.site_id \in DOMAIN sites /\ ~sites[c.site_id].is_active
          /\ d.site_id \notin DOMAIN sites
          /\ memories[<<c.site_id, "site_profile">>] = None
          /\ memories[<<d.site_id, "site_profile">>] = None
          /\ \E o1 \in RunGenerate(c), o2 \in RunGenerate(d) :
                o1.http = 404 /\ o2.http = 404

\* The number of images in the cached inventory of the site
CachedImages(site_id) ==
    IF memories[<<site_id, "media_cache">>] = None THEN 0
    ELSE Len(Get(memories[<<site_id, "media_cache">>]).items)

\* C18: for every generate_draft request with images_count in 0..3, the
\* images used in the generated article (reported in images_used) are at
\* most images_count and at most the cached images; none with
\* images_count = 0.
C18_ImagesCountBounds ==
    \A c \in GenerateCalls : \A out \in RunGenerate(c) :
        out.status = "created"
          => /\ Len(out.images_used) <= c.images_count
             /\ Len(out.images_used) <= CachedImages(c.site_id)

----------------------------------------------------------------------------
(* The signer applied to chosen inputs, and the requests the signed calls    *)
(* of analyze and of the pipeline put on the wire                           *)

SignInputs ==
    [ secret : {"ka", "kb"}, method : {"GET", "POST"},
      path : {"/a", "/b", "/a\n7"}, ts : {"7", "8", "7\n"},
      body : {"", "x", "\nx"} ]

\* int(time.time()) at the calls
Timestamps == {1762387200, 1762387260}

\* The signed GETs one analyze issues: none for an unknown site, the media
\* fetch only after the profile fetch returned
analyze_requests(site_id, profile_reply, t1, t2) ==
    LET site == get_site(site_id)
        p == wp_signed_get(site.site_url, site.secret, ProfileGet.call_path,
                 ProfileGet.sign_path, GetResponse(profile_reply))
    IN  IF ~site.ok THEN <<>>
        ELSE <<wp_signed_get_request(site.site_url, site.secret,
                   ProfileGet.call_path, ProfileGet.sign_path, t1)>>
             \o (IF p.raised # "" THEN <<>>
                 ELSE <<wp_signed_get_request(site.site_url, site.secret,
                            MediaGet.call_path, MediaGet.sign_path, t2)>>)

\* The signed POST one pipeline run issues: none for an unknown site or a
\* duplicate
pipeline_requests(tbl, site_id, title, content, excerpt, topic_key, t) ==
    LET site == get_site(site_id)
        internal_block ==
            build_internal_links_block(tbl, site_id, topic_key, LinksLimit)
        body_json == body_json_of(title, Enrich(content, internal_block),
                                  excerpt)
    IN  IF ~site.ok \/ SelectDuplicate(tbl, site_id, sha256_hex(content)) # {}
        THEN <<>>
        ELSE <<wp_signed_post_request(site.site_url, site.secret, DraftPath,
                                      body_json, t)>>

Sign ==
    /\ \E i \in SignInputs :
          wire' = << [ kind |-> "sign", signed |-> i,
                       sig |-> hmac_sign(i.secret, i.method, i.path, i.ts,
                                         i.body) ] >>
    /\ UNCHANGED engineVars
    /\ UNCHANGED workerVars

AnalyzeWire ==
    /\ \E c \in AnalyzeCalls : \E t1, t2 \in Timestamps :
          /\ t1 <= t2
          /\ wire' = analyze_requests(c.site_id, c.profile_reply, t1, t2)
    /\ UNCHANGED engineVars
    /\ UNCHANGED workerVars

DraftWire ==
    /\ \E c \in LinkCalls : \E t \in Timestamps :
          wire' = pipeline_requests(articles, c.site_id, c.title, c.content,
                                    c.excerpt, c.topic_key, t)
    /\ UNCHANGED engineVars
    /\ UNCHANGED workerVars

NextWire == Sign \/ AnalyzeWire \/ DraftWire

SpecWire == Init /\ [][NextWire]_vars

Requests == { i \in 1..Len(wire) : wire[i].kind = "request" }

\* The path with its query string removed
RECURSIVE StripQuery(_)
StripQuery(path) ==
    IF path = "" \/ Head(path) = "?" THEN ""
    ELSE Head(path) \o StripQuery(Tail(path))

\* C11: for every signed GET of analyze, the path fed to the signer is the
\* called path with its query string removed, and the signature sent is the
\* one of that path: the profile fetch signs exactly the path it calls, the
\* media fetch calls /wp-json/llmgeo/v1/media?per_page=N and signs
\* /wp-json/llmgeo/v1/media.
C11_SignedPathHasNoQuery ==
    /\ \A i \in Requests : wire[i].method = "GET" =>
          /\ wire[i].signed.path = StripQuery(wire[i].call_path)
          /\ wire[i].headers["X-LLMGEO-SIGN"] =
                hmac_sign(wire[i].signed.secret, "GET",
                          StripQuery(wire[i].call_path),
                          wire[i].headers["X-LLMGEO-TS"], "")
    /\ (Requests # {} /\ wire[1].method = "GET") =>
          /\ wire[1].call_path = "/wp-json/llmgeo/v1/site-profile"
          /\ wire[1].signed.path = wire[1].call_path
          /\ Len(wire) = 2 =>
                /\ wire[2].call_path =
                      "/wp-json/llmgeo/v1/media?per_page=" \o ToString(MAX_MEDIA)
                /\ wire[2].signed.path = "/wp-json/llmgeo/v1/media"

\* An analyze sent both GETs, the second to a path with a query string
C11_Witness ==
    /\ Len(wire) = 2
    /\ wire[2].kind = "request" /\ wire[2].method = "GET"
    /\ wire[2].call_path # StripQuery(wire[2].call_path)
    /\ wire[2].url = "https://A.re/wp-json/llmgeo/v1/media?per_page=20"

\* The two inputs differ in exactly one of method, path, timestamp and body,
\* the secret being the same
DifferInOneField(a, b) ==
    /\ a.secret = b.secret
    /\ Cardinality({ f \in {"method", "path", "ts", "body"} : a[f] # b[f] }) = 1

\* C12: the signature is a function of (secret, method, path, timestamp,
\* body): the same input signed again gives the signature obtained, and an
\* input that differs from it in exactly one of method, path, timestamp or
\* body gives another signed message and another signature.
C12_SignerInjectivePerField ==
    \A i \in 1..Len(wire) : wire[i].kind = "sign" =>
        \A v \in SignInputs :
            /\ v = wire[i].signed =>
                  hmac_sign(v.secret, v.method, v.path, v.ts, v.body)
                    = wire[i].sig
            /\ DifferInOneField(v, wire[i].signed) =>
                  /\ hmac_message(v.method, v.path, v.ts, v.body)
                       # hmac_message(wire[i].signed.method,
                             wire[i].signed.path, wire[i].signed.ts,
                             wire[i].signed.body)
                  /\ hmac_sign(v.secret, v.method, v.path, v.ts, v.body)
                       # wire[i].sig

\* An input whose fields hold the separator was signed, and an input that
\* differs from it in two fields has the same signed message
C12_Witness ==
    /\ Len(wire) = 1 /\ wire[1].kind = "sign"
    /\ wire[1].signed.path = "/a\n7"
    /\ \E v \in SignInputs :
          /\ v.secret = wire[1].signed.secret
          /\ v # wire[1].signed
          /\ hmac_sign(v.secret, v.method, v.path, v.ts, v.body) = wire[1].sig

\* C20: for every signed call, the body fed to the signer is the text whose
\* bytes are sent (the empty text for a GET), the timestamp header is the
\* timestamp that was signed, the signature header is the signature of
\* these, and the call carries both headers.
C20_SignedIsSent ==
    \A i \in Requests :
        /\ {"X-LLMGEO-TS", "X-LLMGEO-SIGN"} \subseteq DOMAIN wire[i].headers
        /\ wire[i].headers["X-LLMGEO-TS"] = wire[i].signed.ts
        /\ wire[i].data = encode_utf8(wire[i].signed.body)
        /\ wire[i].method = "GET" => wire[i].signed.body = ""
        /\ wire[i].headers["X-LLMGEO-SIGN"] =
              hmac_sign(wire[i].signed.secret, wire[i].method,
                        wire[i].signed.path, wire[i].signed.ts,
                        wire[i].signed.body)

\* A POST with a body was sent
C20_Witness ==
    \E i \in Requests :
        /\ wire[i].method = "POST"
        /\ wire[i].signed.body # ""
        /\ wire[i].url = "https://B.re/wp-json/llmgeo/v1/draft"

----------------------------------------------------------------------------
(* The admin token: the worker sends it, the routes of the engine declare   *)
(* no header parameter and no dependency                                    *)

\* ENGINE_ADMIN_TOKEN of the deployment: not configured, or configured
AdminTokens == {"", "s3cret"}

\* _headers() of the worker under a configured token
worker_headers(token) ==
    IF token # "" THEN [name \in {"X-Engine-Token"} |-> token] ELSE <<>>

\* The headers a client can send
ClientHeaders == { worker_headers(t) : t \in {"", "s3cret", "wrong"} }

\* A request to a mutating route, as the application serves it
Serve(headers, route, c) ==
    CASE route = "analyze" -> RunAnalyze(c)
      [] route = "draft" -> RunDraft(c)
      [] OTHER -> RunGenerate(c)

MutatingRequests ==
    [route : {"analyze"}, call : AnalyzeCalls]
    \cup [route : {"draft"}, call : DraftCalls]
    \cup [route : {"generate-draft"}, call : GenerateCalls]

CarriesToken(headers, token) ==
    "X-Engine-Token" \in DOMAIN headers /\ headers["X-Engine-Token"] = token

RejectedNoEffect(out) ==
    /\ out.status = "error"
    /\ out.http >= 400
    /\ out.posts = 0 /\ out.gets = 0
    /\ out.memories = memories
    /\ out.articles = articles
    /\ out.wp_posts = wp_posts

\* C19: when an admin token is configured, a request to analyze,
\* create_draft or generate_draft that does not carry that token is
\* rejected, with no remote call, no memory write and no article row.
C19_AdminTokenRequired ==
    \A token \in AdminTokens : \A h \in ClientHeaders :
        (token # "" /\ ~CarriesToken(h, token))
          => \A q \in MutatingRequests :
                \A out \in Serve(h, q.route, q.call) : RejectedNoEffect(out)

----------------------------------------------------------------------------
(* The worker, src/app/worker.py. It sees the engine only through the HTTP *)
(* exchange of call_analyze and call_generate.                             *)

SLEEP_SECONDS == 60

\* str.strip() and str.lower()
IsSpace(c) == c \in {" ", "\t", "\n"}

RECURSIVE lstrip(_)
lstrip(s) == IF s # "" /\ IsSpace(Head(s)) THEN lstrip(Tail(s)) ELSE s

RECURSIVE rstrip(_)
rstrip(s) ==
    IF s # "" /\ IsSpace(SubSeq(s, Len(s), Len(s)))
    THEN rstrip(SubSeq(s, 1, Len(s) - 1))
    ELSE s

strip(s) == rstrip(lstrip(s))

lower_char(c) ==
    LET upper == "ABCDEFGHIJKLMNOPQRSTUVWXYZ"
        lower_ == "abcdefghijklmnopqrstuvwxyz"
        at == { i \in 1..26 : SubSeq(upper, i, i) = c }
    IN  IF at = {} THEN c
        ELSE LET i == CHOOSE i \in at : TRUE IN SubSeq(lower_, i, i)

RECURSIVE lower(_)
lower(s) == IF s = "" THEN "" ELSE lower_char(Head(s)) \o lower(Tail(s))

\* Mutant: the monthly period is taken for the weekly one
freq_to_seconds_WeekIsMonth(freq) ==
    LET f == lower(strip(freq))
    IN  IF f = "1_per_day" THEN 24 * 3600
        ELSE IF f = "1_per_week" THEN 30 * 24 * 3600
        ELSE IF f = "1_per_month" THEN 30 * 24 * 3600
        ELSE 7 * 24 * 3600

\* _freq_to_seconds
freq_to_seconds(freq) ==
    LET f == lower(strip(freq))
    IN  IF f = "1_per_day" THEN 24 * 3600
        ELSE IF f = "1_per_week" THEN 7 * 24 * 3600
        ELSE IF f = "1_per_month" THEN 30 * 24 * 3600
        ELSE 7 * 24 * 3600

\* "|".join(parts)
RECURSIVE join_bar(_)
join_bar(parts) ==
    IF parts = <<>> THEN ""
    ELSE IF Len(parts) = 1 THEN parts[1]
    ELSE parts[1] \o "|" \o join_bar(Tail(parts))

\* _key(*parts)
key(parts) == sha256_hex(join_bar(parts))

\* StateStore.get_ts and StateStore.set_ts over the dict self.mem
get_ts(st, k) == IF k \in DOMAIN st THEN st[k] ELSE 0

set_ts(st, k, ts) ==
    [x \in DOMAIN st \cup {k} |-> IF x = k THEN ts ELSE st[x]]

\* An entry of the job list: a JSON object whose keys may be missing, or a
\* value that is not an object
Job(site_id, topic_key, frequency, images_count) ==
    [ is_dict |-> TRUE, site_id |-> site_id, topic_key |-> topic_key,
      frequency |-> frequency, images_count |-> images_count ]

NotADict ==
    [ is_dict |-> FALSE, site_id |-> None, topic_key |-> None,
      frequency |-> None, images_count |-> None ]

\* j.get(name, default)
j_get(j, name, default) == IF j[name] = None THEN default ELSE Get(j[name])

\* int(x) raises ValueError on a text that is not a number
int_raises(x) == x \notin {"0", "1", "2", "3"}

JobConfigs ==
    { << Job(Some("A"), Some("roofing"), Some("1_per_week"), Some("2")) >>,
      << Job(Some("A"), Some("plumbing"), Some("1_per_day"), Some("0")),
         Job(Some("B"), Some("roofing"), Some(" 1_PER_MONTH "), Some("2")) >>,
      << Job(Some("B"), Some("roofing"), None, None),
         Job(None, Some("roofing"), Some("1_per_day"), Some("2")),
         Job(Some(" B "), Some("plumbing"), Some("hourly"), Some("1")) >>,
      << Job(Some("A"), Some("roofing"), Some("1_per_day"), Some("two")) >>,
      << Job(Some("A"), Some("roofing"), Some("1_per_day"), Some("2")),
         NotADict >>,
      << Job(Some("A|x"), Some("y"), Some("1_per_day"), Some("2")),
         Job(Some("A"), Some("x|y"), Some("1_per_day"), Some("2")) >> }

\* What requests.post of the worker meets: a response with a status, or an
\* exception (ReadTimeout, ConnectionError)
EngineReplies ==
    { [raises |-> "", status_code |-> 200],
      [raises |-> "", status_code |-> 502],
      [raises |-> "ReadTimeout", status_code |-> 0],
      [raises |-> "ConnectionError", status_code |-> 0] }

\* call_analyze and call_generate: False on a status >= 300, True otherwise;
\* an exception of requests.post is not caught
call_engine(reply) ==
    IF reply.raises # "" THEN "raised"
    ELSE IF reply.status_code >= 300 THEN "failed"
    ELSE "ok"

\* int(time.time()) when main() starts
StartTime == 1762387200

\* Seconds from the start of one cycle to the start of the next: the sleep
\* of SLEEP_SECONDS, or a longer pause of the process
Jumps == {SLEEP_SECONDS, 3 * 24 * 3600, 4 * 24 * 3600, 30 * 24 * 3600}

\* Where the loops of main() stand before job idx of a phase
Position(phase, idx) ==
    IF phase = "analyze" /\ idx <= Len(jobs)
    THEN [phase |-> "analyze", idx |-> idx]
    ELSE IF phase = "analyze" /\ Len(jobs) >= 1
    THEN [phase |-> "generate", idx |-> 1]
    ELSE IF phase = "generate" /\ idx <= Len(jobs)
    THEN [phase |-> "generate", idx |-> idx]
    ELSE [phase |-> "sleep", idx |-> 0]

\* The exception left main(): the process has ended
Crashed == [phase |-> "crashed", idx |-> 0]

AnalyzeKey(site_id) == "analyze:" \o key(<<site_id>>)

GenKey(site_id, topic_key) == "gen:" \o key(<<site_id, topic_key>>)

JobId(idx) == "job" \o ToString(idx)

\* The jobs whose generation key is k
JobsOfKey(k) ==
    { JobId(i) : i \in { n \in 1..Len(jobs) :
          /\ jobs[n].is_dict
          /\ GenKey(strip(j_get(jobs[n], "site_id", "")),
                    strip(j_get(jobs[n], "topic_key", ""))) = k } }

InitWorker ==
    /\ articles = <<>>
    /\ memories = [k \in SiteIds \X MemoryKeys |-> None]
    /\ wp_posts = <<>>
    /\ today = 1
    /\ bases = <<>>
    /\ drafts = <<>>
    /\ inflight = NoneInFlight
    /\ wire = <<>>
    /\ jobs \in JobConfigs
    /\ store = <<>>
    /\ clock = StartTime
    /\ now = StartTime
    /\ wpc = Position("analyze", 1)
    /\ seen_sites = {}
    /\ cycles = 1
    /\ log = NoLog
    /\ pending = {}

\* One pass of the loop `1) Daily analyze per site`
AnalyzeStep ==
    /\ wpc.phase = "analyze"
    /\ LET j == jobs[wpc.idx]
           site_id == strip(j_get(j, "site_id", ""))
           k_an == AnalyzeKey(site_id)
           last == get_ts(store, k_an)
           next == Position("analyze", wpc.idx + 1)
           entry == [ phase |-> "analyze", idx |-> wpc.idx, key |-> k_an,
                      last |-> last, now |-> now, frequency |-> "",
                      called |-> FALSE, result |-> "", reply |-> NoLog.reply ]
       IN  IF ~j.is_dict
           THEN /\ wpc' = Crashed
                /\ log' = [entry EXCEPT !.key = "", !.last = 0,
                                        !.result = "malformed"]
                /\ UNCHANGED <<store, seen_sites, pending>>
           ELSE IF site_id = "" \/ site_id \in seen_sites
           THEN /\ wpc' = next
                /\ log' = [entry EXCEPT !.result = "skipped"]
                /\ UNCHANGED <<store, seen_sites, pending>>
           ELSE IF now - last >= 24 * 3600
           THEN \E reply \in EngineReplies :
                  LET res == call_engine(reply)
                  IN  /\ seen_sites' = seen_sites \cup {site_id}
                      /\ store' = IF res = "ok" THEN set_ts(store, k_an, now)
                                  ELSE store
                      /\ wpc' = IF res = "raised" THEN Crashed ELSE next
                      /\ log' = [entry EXCEPT !.called = TRUE, !.result = res,
                                              !.reply = reply]
                      /\ pending' = IF res = "ok" THEN pending \ {k_an}
                                    ELSE pending \cup {k_an}
           ELSE /\ seen_sites' = seen_sites \cup {site_id}
                /\ wpc' = next
                /\ log' = [entry EXCEPT !.result = "not_due"]
                /\ UNCHANGED <<store, pending>>
    /\ UNCHANGED <<jobs, clock, now, cycles, wire>>
    /\ UNCHANGED engineVars

\* One pass of the loop `2) Generate drafts per job`
GenerateStep ==
    /\ wpc.phase = "generate"
    /\ LET j == jobs[wpc.idx]
           site_id == strip(j_get(j, "site_id", ""))
           topic_key == strip(j_get(j, "topic_key", ""))
           frequency == strip(j_get(j, "frequency", "1_per_week"))
           every == freq_to_seconds(frequency)
           k_gen == GenKey(site_id, topic_key)
           last == get_ts(store, k_gen)
           next == Position("generate", wpc.idx + 1)
           entry == [ phase |-> "generate", idx |-> wpc.idx, key |-> k_gen,
                      last |-> last, now |-> now,
                      frequency |-> j_get(j, "frequency", "1_per_week"),
                      called |-> FALSE, result |-> "", reply |-> NoLog.reply ]
       IN  IF ~j.is_dict \/ int_raises(j_get(j, "images_count", "2"))
           THEN /\ wpc' = Crashed
                /\ log' = [entry EXCEPT !.key = "", !.last = 0,
                                        !.frequency = "",
                                        !.result = "malformed"]
                /\ UNCHANGED <<store, pending>>
           ELSE IF site_id = "" \/ topic_key = ""
           THEN /\ wpc' = next
                /\ log' = [entry EXCEPT !.result = "skipped"]
                /\ UNCHANGED <<store, pending>>
           ELSE IF now - last >= every
           THEN \E reply \in EngineReplies :
                  LET res == call_engine(reply)
                  IN  /\ store' = IF res = "ok" THEN set_ts(store, k_gen, now)
                                  ELSE store
                      /\ wpc' = IF res = "raised" THEN Crashed ELSE next
                      /\ log' = [entry EXCEPT !.called = TRUE, !.result = res,
                                              !.reply = reply]
                      /\ pending' = IF res = "ok"
                                    THEN pending \ JobsOfKey(k_gen)
                                    ELSE pending \cup {JobId(wpc.idx)}
           ELSE /\ wpc' = next
                /\ log' = [entry EXCEPT !.result = "not_due"]
                /\ UNCHANGED <<store, pending>>
    /\ UNCHANGED <<jobs, clock, now, cycles, seen_sites, wire>>
    /\ UNCHANGED engineVars

\* time.sleep(SLEEP_SECONDS), then the top of the next cycle
Sleep ==
    /\ wpc.phase = "sleep"
    /\ cycles < MaxCycles
    /\ \E d \in Jumps : clock' = clock + d
    /\ now' = clock'
    /\ seen_sites' = {}
    /\ cycles' = cycles + 1
    /\ wpc' = Position("analyze", 1)
    /\ log' = NoLog
    /\ UNCHANGED <<jobs, store, pending, wire>>
    /\ UNCHANGED engineVars

NextWorker == AnalyzeStep \/ GenerateStep \/ Sleep

SpecWorker == InitWorker /\ [][NextWorker]_vars

----------------------------------------------------------------------------
(* Vocabulary of the worker properties *)

\* The last step evaluated a well-formed job of the generate loop
EvaluatedGenerate ==
    log.phase = "generate" /\ log.result \in {"not_due", "ok", "failed", "raised"}

\* The period of a frequency, the value compared as it is configured
ClaimedPeriod(freq) ==
    IF freq = "1_per_day" THEN 86400
    ELSE IF freq = "1_per_week" THEN 7 * 86400
    ELSE IF freq = "1_per_month" THEN 30 * 86400
    ELSE 7 * 86400

\* C13: in each cycle, a configured job triggers draft generation if and
\* only if the time elapsed since the stored last-generation timestamp of
\* its (site, topic) pair is at least the period of its frequency:
\* 1_per_day 1 day, 1_per_week 7 days, 1_per_month 30 days, any other
\* value 7 days.
C13_TriggerIffElapsed ==
    EvaluatedGenerate
      => (log.called <=> log.now - log.last >= ClaimedPeriod(log.frequency))

\* C13 as amended: the same, the frequency being compared after its
\* surrounding whitespace is removed and it is put in lower case.
C13_TriggerIffElapsedNormalized ==
    EvaluatedGenerate
      => (log.called <=>
            log.now - log.last >= ClaimedPeriod(lower(strip(log.frequency))))

\* A weekly job that was not due 4 days after its last generation triggers
\* 8 days after it
C13_Witness ==
    /\ EvaluatedGenerate
    /\ log.frequency = "1_per_week"
    /\ log.last = StartTime
    /\ log.now - log.last = 8 * 86400
    /\ log.called

\* The engine's answer to a trigger is a failure
TriggerFailed(reply) == reply.raises # "" \/ reply.status_code >= 400

\* This step of the worker evaluates a job
JobStep == wpc.phase \in {"analyze", "generate"} /\ wpc' # wpc

\* A failed trigger leaves every stored timestamp as it was, and a stored
\* timestamp changes only by a trigger that succeeded, to the `now` of its
\* cycle and for its key alone
TimestampOnlyOnSuccess ==
    /\ (JobStep /\ log'.called /\ TriggerFailed(log'.reply)) => store' = store
    /\ store' # store
        => /\ JobStep /\ log'.called /\ ~TriggerFailed(log'.reply)
           /\ get_ts(store', log'.key) = now
           /\ \A k \in DOMAIN store' \ {log'.key} :
                 k \in DOMAIN store /\ store'[k] = store[k]

\* A trigger that failed and has not succeeded since is attempted when a
\* cycle evaluates it
RetriedWhenEvaluated ==
    /\ (JobStep /\ wpc.phase = "generate" /\ JobId(wpc.idx) \in pending)
        => log'.called
    /\ (/\ JobStep /\ wpc.phase = "analyze"
        /\ jobs[wpc.idx].is_dict
        /\ strip(j_get(jobs[wpc.idx], "site_id", "")) \notin seen_sites
        /\ AnalyzeKey(strip(j_get(jobs[wpc.idx], "site_id", ""))) \in pending)
        => log'.called

\* After a failed trigger the loop goes on, towards the cycle that retries
FailedTriggerGoesOn ==
    (JobStep /\ log'.called /\ TriggerFailed(log'.reply))
      => wpc' = Position(wpc.phase, wpc.idx + 1)

\* C14: a trigger (analyze or generate) that fails leaves the stored
\* timestamp of its key unchanged, so that it is due again and is attempted
\* again in the next cycle; the timestamp is advanced only by a trigger that
\* succeeded.
C14_FailedTriggerRetried ==
    [][TimestampOnlyOnSuccess /\ RetriedWhenEvaluated /\ FailedTriggerGoesOn]_vars

\* C15: no failure of a single job ends the worker loop: after an analyze
\* or generate trigger failed (error status, timeout, connection refused)
\* or a job entry was malformed, the worker stands at the next job of the
\* cycle, or at the sleep before the next cycle.
C15_WorkerSurvives ==
    ((log.called /\ TriggerFailed(log.reply)) \/ log.result = "malformed")
      => wpc = Position(log.phase, log.idx + 1)

----------------------------------------------------------------------------
\* The row a run that publishes base content `base` under `topic_key` on the
\* site is to append: the content with the link block of the rows present,
\* the hash of the base content, and the id and link of the remote answer
IsRowOf(row, site_id, base, topic_key, reply) ==
    LET answer == Get(RemoteResponse(wp_posts, site_id, reply).json)
    IN  /\ row.site_id = site_id
        /\ row.content_html =
              Enrich(base, build_internal_links_block(articles, site_id,
                               topic_key, LinksLimit))
        /\ row.content_hash = sha256_hex(base)
        /\ row.topic_key = topic_key
        /\ row.wp_post_id = answer.id
        /\ row.wp_url = answer.link

\* The table after the run: one row more on `created`, the same otherwise,
\* and the rows there before are still there as they were
TableAfter(out, site_id, base, topic_key, reply) ==
    LET n == Len(articles)
    IN  IF out.status = "created"
        THEN /\ Len(out.articles) = n + 1
             /\ SubSeq(out.articles, 1, n) = articles
             /\ IsRowOf(out.articles[n + 1], site_id, Get(base), topic_key,
                        reply)
        ELSE out.articles = articles

\* C21: the articles table changes only on `created`: a run that returns
\* `created` appends exactly one row, holding the enriched content, the hash
\* of the base content, the topic key and the post id and link of the remote
\* answer; a run with any other outcome (duplicate, any error) and an
\* analyze leave the table as it was; no existing row is changed or removed.
C21_AppendOnlyOnCreated ==
    /\ \A c \in DraftCalls : \A out \in RunDraft(c) :
          /\ TableAfter(out, c.site_id, Some(c.content), c.topic_key, c.reply)
          /\ out.status = "created" => out.base = Some(c.content)
    /\ \A c \in GenerateCalls : \A out \in RunGenerate(c) :
          /\ TableAfter(out, c.site_id, Some(BaseOfGenerate(c)), c.topic_key,
                        c.reply)
          /\ out.status = "created" => out.base = Some(BaseOfGenerate(c))
    /\ \A c \in AnalyzeCalls : \A out \in RunAnalyze(c) :
          out.status # "created" /\ out.articles = articles

\* With a row of the site and topic in the table, a run of each entry point
\* creates a row whose content carries a link block, another run is a
\* duplicate and another fails after the remote side stored the draft
C21_Witness ==
    /\ \E c \in DraftCalls : \E out \in RunDraft(c) :
          /\ out.status = "created"
          /\ \E i \in Rows : /\ articles[i].site_id = c.site_id
                              /\ articles[i].topic_key = c.topic_key
          /\ out.articles[Len(articles) + 1].content_html # c.content
    /\ \E c \in GenerateCalls : \E out \in RunGenerate(c) :
          /\ out.status = "created"
          /\ \E i \in Rows : /\ articles[i].site_id = c.site_id
                              /\ articles[i].topic_key = c.topic_key
    /\ \E c \in DraftCalls : \E out \in RunDraft(c) :
          out.status = "duplicate"
    /\ \E c \in DraftCalls : \E out \in RunDraft(c) :
          /\ out.status = "error" /\ c.reply.created /\ out.posts = 1
          /\ Len(articles) > 0

----------------------------------------------------------------------------
RowsOfSite(tbl, site_id) == SelectSeq(tbl, LAMBDA row : row.site_id = site_id)

\* The memory entries and the article rows of every other site are after
\* the run what they were before it
OtherSitesUntouched(out, site_id) ==
    \A t \in SiteIds \ {site_id} :
        /\ \A k \in MemoryKeys : out.memories[<<t, k>>] = memories[<<t, k>>]
        /\ RowsOfSite(out.articles, t) = RowsOfSite(articles, t)

\* C23: an analyze, create_draft or generate_draft run for a site leaves
\* the memory entries and the article rows of every other site unchanged,
\* and a run is a `duplicate` only of a row of its own site: the same
\* content published on another site does not make it a duplicate.
C23_ScopedToSite ==
    /\ \A c \in AnalyzeCalls : \A out \in RunAnalyze(c) :
          OtherSitesUntouched(out, c.site_id)
    /\ \A c \in DraftCalls : \A out \in RunDraft(c) :
          /\ OtherSitesUntouched(out, c.site_id)
          /\ out.status = "duplicate"
                => SameFingerprint(c.site_id, c.content) # {}
    /\ \A c \in GenerateCalls : \A out \in RunGenerate(c) :
          /\ OtherSitesUntouched(out, c.site_id)
          /\ out.status = "duplicate"
                => SameFingerprint(c.site_id, BaseOfGenerate(c)) # {}

\* Another site holds memory entries and a row with the fingerprint of the
\* content; the run for a site that has no such row creates a draft, and an
\* analyze of that site succeeds
C23_Witness ==
    \E c \in DraftCalls : \E t \in SiteIds \ {c.site_id} :
        /\ \E i \in Rows : /\ articles[i].site_id = t
                            /\ articles[i].content_hash = sha256_hex(c.content)
        /\ memories[<<t, "site_profile">>] # None
        /\ SameFingerprint(c.site_id, c.content) = {}
        /\ \E out \in RunDraft(c) : out.status = "created"
        /\ \E a \in AnalyzeCalls : \E out \in RunAnalyze(a) :
              a.site_id = c.site_id /\ out.status = "ok"

----------------------------------------------------------------------------
\* The run sent at most one POST to the draft path and the remote side
\* holds at most one draft more than before it
AtMostOnePost(out) ==
    /\ out.posts <= 1
    /\ Len(out.wp_posts) <= Len(wp_posts) + 1
    /\ out.posts = 0 => out.wp_posts = wp_posts

\* C24: one run of create_draft or generate_draft sends at most one POST to
\* the remote draft path, whatever the POST meets (success, error status,
\* body that is not JSON, timeout): the call is not repeated inside the run.
C24_AtMostOnePost ==
    /\ \A c \in DraftCalls : \A out \in RunDraft(c) : AtMostOnePost(out)
    /\ \A c \in GenerateCalls : \A out \in RunGenerate(c) : AtMostOnePost(out)

\* Runs of both entry points get to the POST and meet each of its outcomes,
\* among them a timeout after the remote side stored the draft
C24_Witness ==
    /\ \A k \in {"json", "status_500", "html", "timeout"} :
          \E c \in DraftCalls : \E out \in RunDraft(c) :
              c.reply.kind = k /\ out.posts = 1
    /\ \E c \in GenerateCalls : \E out \in RunGenerate(c) :
          /\ c.reply.kind = "timeout" /\ c.reply.created
          /\ out.posts = 1
          /\ Len(out.wp_posts) = Len(wp_posts) + 1

----------------------------------------------------------------------------
\* The outcome carries a post id and a url
CarriesIds(out) == out.wp_post_id # None /\ out.wp_url # None

\* The answer of the remote draft path is a 2xx JSON object without id and
\* link
LacksIds(c) ==
    LET r == RemoteResponse(wp_posts, c.site_id, c.reply)
    IN  /\ ~r.timeout /\ r.status_code < 300 /\ r.json # None
        /\ (Get(r.json).id = None \/ Get(r.json).link = None)

NoRowFor(c, out) ==
    (out.posts = 1 /\ LacksIds(c))
        => (out.status # "created" /\ out.articles = articles)

\* C26: every article row has a remote post id and a remote url that are
\* not null, so every `created` and every `duplicate` outcome carries an id
\* and a url; a 2xx JSON answer of the remote draft path without `id` or
\* `link` gives neither a `created` outcome nor an article row.
C26_RemoteIdsNeverNull ==
    /\ \A i \in Rows :
          articles[i].wp_post_id # None /\ articles[i].wp_url # None
    /\ \A c \in DraftCalls : \A out \in RunDraft(c) :
          /\ out.status \in {"created", "duplicate"} => CarriesIds(out)
          /\ NoRowFor(c, out)
    /\ \A c \in GenerateCalls : \A out \in RunGenerate(c) :
          /\ out.status \in {"created", "duplicate"} => CarriesIds(out)
          /\ NoRowFor(c, out)

----------------------------------------------------------------------------
\* The jobs of the configuration the generate loop gets to evaluate, and
\* what it reads of them
Configured ==
    { n \in 1..Len(jobs) : /\ jobs[n].is_dict
                           /\ strip(j_get(jobs[n], "site_id", "")) # ""
                           /\ strip(j_get(jobs[n], "topic_key", "")) # "" }

SiteOf(n) == strip(j_get(jobs[n], "site_id", ""))
TopicOf(n) == strip(j_get(jobs[n], "topic_key", ""))
PairOf(n) == <<SiteOf(n), TopicOf(n)>>

\* The generation of job n, the analyze of its site, would be triggered at
\* time `now` with the timestamps st
GenDue(st, n) ==
    now - get_ts(st, GenKey(SiteOf(n), TopicOf(n)))
        >= freq_to_seconds(strip(j_get(jobs[n], "frequency", "1_per_week")))

AnalyzeDue(st, n) == now - get_ts(st, AnalyzeKey(SiteOf(n))) >= 24 * 3600

KeysDistinct ==
    \A i, j \in Configured :
        /\ PairOf(i) # PairOf(j)
              => GenKey(SiteOf(i), TopicOf(i)) # GenKey(SiteOf(j), TopicOf(j))
        /\ GenKey(SiteOf(i), TopicOf(i)) # AnalyzeKey(SiteOf(j))

\* A step of the generate loop that records a timestamp for its job leaves
\* every job of another pair, and every analyze, as due as it was
TriggerLeavesOthers ==
    (wpc.phase = "generate" /\ store' # store)
        => \A j \in Configured :
              /\ PairOf(j) # PairOf(wpc.idx)
                    => GenDue(store', j) = GenDue(store, j)
              /\ AnalyzeDue(store', j) = AnalyzeDue(store, j)

\* C27: the last-run timestamps of distinct jobs are independent: two
\* different (site, topic) pairs have different generation keys and no
\* generation key is an analyze key, so a successful trigger of one pair
\* does not change whether another pair, or an analyze, is due.
C27_KeysIndependent == [][KeysDistinct /\ TriggerLeavesOthers]_vars

----------------------------------------------------------------------------
(* Overlapping invocations: each runs the statements of the pipeline in     *)
(* its own transaction, every statement reading what is committed; the      *)
(* statements of two invocations interleave                                 *)

OverlapSites == {"A", "Z"}

OverlapReplies ==
    { r \in PostReplies :
        r.kind \in {"json", "status_500"} \/ (r.kind = "timeout" /\ r.created) }

OverlapDraftCalls ==
    { c \in DraftCalls : c.site_id \in OverlapSites /\ c.reply \in OverlapReplies }

OverlapGenerateCalls ==
    { c \in GenerateCalls :
        c.site_id \in OverlapSites /\ c.reply \in OverlapReplies }

\* The analyze calls: the profile is fetched, the media inventory is
\* fetched or the fetch times out
OverlapAnalyzeCalls ==
    { c \in AnalyzeCalls : /\ c.site_id \in OverlapSites
                           /\ c.profile_reply.kind = "json"
                           /\ c.media_reply.kind \in {"json", "timeout"}
                           /\ c.media_reply.value = Media1 }

\* analyze_site, its statements in one step
AnalyzeOverlap ==
    \E c \in OverlapAnalyzeCalls : \E out \in RunAnalyze(c) : Commit(out)

\* The invocation has ended with an exception
Raised(run, raised, status_code, detail) ==
    LET e == ErrorResponse(raised, status_code, detail)
    IN  [run EXCEPT !.pc = "done", !.status = e.status, !.http = e.http]

\* get_site and the duplicate SELECT of an invocation with this content
Checked(run) ==
    LET dups == SelectDuplicate(articles, run.site_id, sha256_hex(run.content))
    IN  IF ~get_site(run.site_id).ok
        THEN { Raised(run, "HTTPException", get_site(run.site_id).status,
                      "Site non trouve") }
        ELSE IF dups # {}
        THEN { [run EXCEPT !.pc = "done", !.status = "duplicate", !.http = 200,
                           !.wp_json =
                               Some([id |-> articles[i].wp_post_id,
                                     link |-> articles[i].wp_url])] : i \in dups }
        ELSE { [run EXCEPT !.pc = "checked"] }

\* create_multisite_draft_internal up to the duplicate SELECT
BeginDraft ==
    /\ \E s \in Slots : \E c \in OverlapDraftCalls :
          /\ inflight[s].pc = "idle"
          /\ \E run \in Checked([Idle EXCEPT !.entry = "draft",
                       !.site_id = c.site_id, !.title = c.title,
                       !.content = c.content, !.excerpt = c.excerpt,
                       !.topic_key = c.topic_key, !.source = "engine:draft",
                       !.reply = Some(c.reply)]) :
                inflight' = [inflight EXCEPT ![s] = run]
    /\ UNCHANGED <<articles, memories, wp_posts, today, bases, drafts, wire>>
    /\ UNCHANGED workerVars

\* generate_draft up to the duplicate SELECT
BeginGenerate ==
    /\ \E s \in Slots : \E c \in OverlapGenerateCalls :
          LET profile == memory_get(memories, c.site_id, "site_profile")
              media == memory_get(memories, c.site_id, "media_cache")
              built == build_article_html(profile, media, c.topic_key,
                                          c.angle, today)
              run == [Idle EXCEPT !.entry = "generate", !.site_id = c.site_id,
                                  !.topic_key = c.topic_key,
                                  !.source = "engine:generate-draft",
                                  !.reply = Some(c.reply)]
          IN  /\ inflight[s].pc = "idle"
              /\ IF ~get_site(c.site_id).ok
                 THEN \E r \in Checked(run) :
                         inflight' = [inflight EXCEPT ![s] = r]
                 ELSE IF site_not_analyzed(profile, media)
                 THEN inflight' = [inflight EXCEPT ![s] =
                         Raised(run, "HTTPException", 400, "Site non analyse")]
                 ELSE \E r \in Checked([run EXCEPT
                             !.title = built.title,
                             !.content = built.content_html,
                             !.excerpt = built.excerpt,
                             !.images_used = built.images_used]) :
                         inflight' = [inflight EXCEPT ![s] = r]
    /\ UNCHANGED <<articles, memories, wp_posts, today, bases, drafts, wire>>
    /\ UNCHANGED workerVars

\* build_internal_links_block and the concatenation
LinksStep ==
    /\ \E s \in Slots :
          LET run == inflight[s]
              internal_block ==
                  build_internal_links_block(articles, run.site_id,
                                             run.topic_key, LinksLimit)
          IN  /\ run.pc = "checked"
              /\ inflight' = [inflight EXCEPT ![s] =
                     [run EXCEPT !.pc = "linked",
                                 !.final = Enrich(run.content, internal_block)]]
    /\ UNCHANGED <<articles, memories, wp_posts, today, bases, drafts, wire>>
    /\ UNCHANGED workerVars

\* wp_signed_post; an exception ends the invocation without commit
PostStep ==
    /\ \E s \in Slots :
          LET run == inflight[s]
              site == get_site(run.site_id)
              body_json == body_json_of(run.title, run.final, run.excerpt)
              r == RemoteResponse(wp_posts, run.site_id, Get(run.reply))
              wp == wp_signed_post(site.site_url, site.secret, DraftPath,
                                   body_json, r)
              stored == RemoteStore(wp_posts, run.site_id, body_json,
                                    Get(run.reply))
          IN  /\ run.pc = "linked"
              /\ Len(stored) <= MaxArticles
              /\ wp_posts' = stored
              /\ drafts' = DraftsAfter(stored, Some(run.content), wp.raised = "")
              /\ inflight' = [inflight EXCEPT ![s] =
                     IF wp.raised # ""
                     THEN Raised(run, wp.raised, wp.status_code, "WP POST failed")
                     ELSE [run EXCEPT !.pc = "posted", !.wp_json = wp.json]]
    /\ UNCHANGED <<articles, memories, today, bases, wire>>
    /\ UNCHANGED workerVars

\* the INSERT, conn.commit() and the return of `created`
InsertStep ==
    /\ \E s \in Slots :
          LET run == inflight[s]
          IN  /\ run.pc = "posted"
              /\ Len(articles) < MaxArticles
              /\ articles' = InsertArticle(articles, run.site_id,
                                 Get(run.wp_json), run.title, run.final,
                                 run.excerpt, run.topic_key,
                                 sha256_hex(run.content), run.source)
              /\ bases' = IF Len(articles') > Len(articles)
                          THEN Append(bases, run.content)
                          ELSE bases
              /\ inflight' = [inflight EXCEPT ![s] =
                     [run EXCEPT !.pc = "done", !.status = "created",
                                 !.http = 200]]
    /\ UNCHANGED <<memories, wp_posts, today, drafts, wire>>
    /\ UNCHANGED workerVars

\* The response has been sent
ReturnStep ==
    /\ \E s \in Slots :
          /\ inflight[s].pc = "done"
          /\ inflight' = [inflight EXCEPT ![s] = Idle]
    /\ UNCHANGED <<articles, memories, wp_posts, today, bases, drafts, wire>>
    /\ UNCHANGED workerVars

NextOverlap ==
    \/ AnalyzeOverlap
    \/ BeginDraft
    \/ BeginGenerate
    \/ LinksStep
    \/ PostStep
    \/ InsertStep
    \/ ReturnStep

SpecOverlap == Init /\ [][NextOverlap]_vars

\* Two invocations for one site with the same base content, in progress at
\* the same time, have both returned `created`
BothCreated(s, t) ==
    /\ s # t
    /\ inflight[s].pc = "done" /\ inflight[s].status = "created"
    /\ inflight[t].pc = "done" /\ inflight[t].status = "created"
    /\ inflight[s].site_id = inflight[t].site_id
    /\ inflight[s].content = inflight[t].content

DraftsOf(site_id, content) ==
    { i \in 1..Len(drafts) :
        drafts[i].site_id = site_id /\ drafts[i].base = content }

\* C22: the duplicate check and the insert are not atomic with respect to
\* other invocations: two overlapping invocations for one site with the same
\* base content can both pass the duplicate check, and then both POST to the
\* remote draft path and both insert, leaving two article rows with the same
\* (site, fingerprint).
C22_OverlapPublishesTwice ==
    \A s, t \in Slots :
        BothCreated(s, t)
          => /\ Cardinality(SameFingerprint(inflight[s].site_id,
                                            inflight[s].content)) >= 2
             /\ Cardinality(DraftsOf(inflight[s].site_id,
                                     inflight[s].content)) >= 2

\* The interleaving: both invocations passed the duplicate check before
\* either inserted, one through each entry point or both through the same
C22_Witness ==
    \E s, t \in Slots :
        /\ BothCreated(s, t)
        /\ \E i, j \in Rows :
              /\ i # j
              /\ articles[i].site_id = articles[j].site_id
              /\ articles[i].content_hash = articles[j].content_hash
              /\ articles[i].wp_post_id # articles[j].wp_post_id

----------------------------------------------------------------------------
(* The worker driving the engine: each call of a cycle is served by the     *)
(* engine, one at a time, and the worker sees the status of the response.   *)
(* The histories log and pending of the worker loop are not kept here.      *)

DriveConfigs ==
    { << Job(Some("A"), Some("roofing"), Some("1_per_day"), Some("2")) >>,
      << Job(Some("A"), Some("roofing"), Some("1_per_week"), Some("2")),
         Job(Some("A"), Some("plumbing"), Some("1_per_day"), Some("0")) >> }

\* What the draft path answers to the engine
DriveReplies ==
    { r \in PostReplies : r.kind \in {"json", "status_500", "timeout"} }

\* What the GETs of analyze meet: the profile, and the inventory or a timeout
DriveAnalyzeCalls(site_id) ==
    { c \in AnalyzeCalls : /\ c.site_id = site_id
                           /\ c.profile_reply.kind = "json"
                           /\ c.media_reply.kind \in {"json", "timeout"}
                           /\ c.media_reply.value = Media1 }

\* requests.post of the worker: the response of the engine arrives, the
\* engine is not reached (ConnectionError), or the response does not arrive
\* within HTTP_TIMEOUT although the engine served the call (ReadTimeout)
Transports == {"", "ConnectionError", "ReadTimeout"}

NotReached ==
    Failed("ConnectionError", 0, "", articles, memories, wp_posts, 0, 0, None)

\* int(j.get("images_count", 2))
int_value(x) ==
    CASE x = "0" -> 0 [] x = "1" -> 1 [] x = "2" -> 2 [] OTHER -> 3

\* POST /api/sites/{site_id}/analyze as served to the worker
ServedAnalyze(site_id, t) ==
    IF t = "ConnectionError" THEN {NotReached}
    ELSE UNION { RunAnalyze(c) : c \in DriveAnalyzeCalls(site_id) }

\* POST /api/sites/{site_id}/generate-draft as served to the worker: the
\* payload has topic_key and images_count, angle is the default
ServedGenerate(site_id, topic_key, images_count, t) ==
    IF t = "ConnectionError" THEN {NotReached}
    ELSE UNION { generate_draft(articles, memories, wp_posts, today, site_id,
                     topic_key, "guide", images_count, r) : r \in DriveReplies }

\* call_analyze, call_generate on the response of the engine
Result(t, out) == call_engine([raises |-> t, status_code |-> out.http])

InitDrive ==
    /\ articles = <<>>
    /\ memories = [k \in SiteIds \X MemoryKeys |-> None]
    /\ wp_posts = <<>>
    /\ today = 1
    /\ bases = <<>>
    /\ drafts = <<>>
    /\ inflight = NoneInFlight
    /\ wire = <<>>
    /\ jobs \in DriveConfigs
    /\ store = <<>>
    /\ clock = StartTime
    /\ now = StartTime
    /\ wpc = Position("analyze", 1)
    /\ seen_sites = {}
    /\ cycles = 1
    /\ log = NoLog
    /\ pending = {}

\* One pass of the loop `1) Daily analyze per site`, the engine serving
DriveAnalyze ==
    /\ wpc.phase = "analyze"
    /\ LET j == jobs[wpc.idx]
           site_id == strip(j_get(j, "site_id", ""))
           k_an == AnalyzeKey(site_id)
           last == get_ts(store, k_an)
           next == Position("analyze", wpc.idx + 1)
       IN  IF ~j.is_dict
           THEN /\ wpc' = Crashed
                /\ UNCHANGED <<store, seen_sites, articles, memories,
                               wp_posts, bases, drafts>>
           ELSE IF site_id = "" \/ site_id \in seen_sites
           THEN /\ wpc' = next
                /\ UNCHANGED <<store, seen_sites, articles, memories,
                               wp_posts, bases, drafts>>
           ELSE IF now - last >= 24 * 3600
           THEN \E t \in Transports : \E out \in ServedAnalyze(site_id, t) :
                  LET res == Result(t, out)
                  IN  /\ Stored(out)
                      /\ seen_sites' = seen_sites \cup {site_id}
                      /\ store' = IF res = "ok" THEN set_ts(store, k_an, now)
                                  ELSE store
                      /\ wpc' = IF res = "raised" THEN Crashed ELSE next
           ELSE /\ seen_sites' = seen_sites \cup {site_id}
                /\ wpc' = next
                /\ UNCHANGED <<store, articles, memories, wp_posts, bases,
                               drafts>>
    /\ UNCHANGED <<jobs, clock, now, cycles, log, pending>>
    /\ UNCHANGED <<today, inflight, wire>>

\* One pass of the loop `2) Generate drafts per job`, the engine serving
DriveGenerate ==
    /\ wpc.phase = "generate"
    /\ LET j == jobs[wpc.idx]
           site_id == strip(j_get(j, "site_id", ""))
           topic_key == strip(j_get(j, "topic_key", ""))
           frequency == strip(j_get(j, "frequency", "1_per_week"))
           images_count == j_get(j, "images_count", "2")
           every == freq_to_seconds(frequency)
           k_gen == GenKey(site_id, topic_key)
           last == get_ts(store, k_gen)
           next == Position("generate", wpc.idx + 1)
       IN  IF ~j.is_dict \/ int_raises(images_count)
           THEN /\ wpc' = Crashed
                /\ UNCHANGED <<store, articles, memories, wp_posts, bases,
                               drafts>>
           ELSE IF site_id = "" \/ topic_key = ""
           THEN /\ wpc' = next
                /\ UNCHANGED <<store, articles, memories, wp_posts, bases,
                               drafts>>
           ELSE IF now - last >= every
           THEN \E t \in Transports :
                \E out \in ServedGenerate(site_id, topic_key,
                                           int_value(images_count), t) :
                  LET res == Result(t, out)
                  IN  /\ Stored(out)
                      /\ store' = IF res = "ok" THEN set_ts(store, k_gen, now)
                                  ELSE store
                      /\ wpc' = IF res = "raised" THEN Crashed ELSE next
           ELSE /\ wpc' = next
                /\ UNCHANGED <<store, articles, memories, wp_posts, bases,
                               drafts>>
    /\ UNCHANGED <<jobs, clock, now, cycles, seen_sites, log, pending>>
    /\ UNCHANGED <<today, inflight, wire>>

\* Seconds from one cycle to the next: the sleep, or a pause of days
DriveJumps == {SLEEP_SECONDS, 4 * 24 * 3600}

\* time.sleep(SLEEP_SECONDS), then the top of the next cycle; the calendar
\* day of the engine is the next one after a pause of days, and may be
\* after the sleep
DriveSleep ==
    /\ wpc.phase = "sleep"
    /\ cycles < MaxCycles
    /\ \E d \in DriveJumps : \E day \in {today, today + 1} :
          /\ day <= Len(Days)
          /\ d >= 24 * 3600 => day = today + 1
          /\ clock' = clock + d
          /\ today' = day
    /\ now' = clock'
    /\ seen_sites' = {}
    /\ cycles' = cycles + 1
    /\ wpc' = Position("analyze", 1)
    /\ UNCHANGED <<jobs, store, log, pending>>
    /\ UNCHANGED <<articles, memories, wp_posts, bases, drafts, inflight, wire>>

NextDrive == DriveAnalyze \/ DriveGenerate \/ DriveSleep

SpecDrive == InitDrive /\ [][NextDrive]_vars

\* Two drafts the remote side holds for one site, made from the same base
\* content
SameBase(i, j) ==
    /\ i < j
    /\ drafts[i].site_id = drafts[j].site_id
    /\ drafts[i].base = drafts[j].base

====
